---- MODULE Spec2Model ----
(***************************************************************************)
(* Textbook-reporting application (src/app.py): the record reconciliation  *)
(* (load_data, load_preview_data), the class-list matcher (parse_classes,  *)
(* check_class_match), the Submission writers (save_single_row,             *)
(* delete_row_from_db) and the editing session kept in st.session_state.   *)
(*                                                                         *)
(* Text values whose characters matter to the code (identities, class      *)
(* lists) are sequences of one-character tokens; all other cell values are *)
(* atomic strings.  Non-ASCII characters of the source are written as      *)
(* ASCII tokens: CJKCOMMA is the full-width comma U+FF0C.                  *)
(***************************************************************************)
EXTENDS Integers, Sequences, FiniteSets, TLC

VARIABLES
    sub,                  \* rows of sheet Submission_Records below the header
    hist,                 \* rows of sheet DB_History below the header
    curr,                 \* rows of sheet DB_Curriculum below the header
    conn,                 \* get_connection() returns a client
    nextUuid,             \* number of identities uuid.uuid4() has handed out
    dept_val, sem_val, grade_val,             \* sidebar selectors
    use_history_checkbox, history_year_val,   \* sidebar history widgets
    last_dept, last_grade,                    \* session_state['last_*']
    data,                 \* session_state['data'], the merged table
    loaded,               \* 'loaded' in session_state
    steps,                \* events the session has handled
    edit_index,           \* session_state['edit_index'], 0 for None
    current_uuid,         \* session_state['current_uuid']
    original_key,         \* session_state['original_key']
    form_data,            \* session_state['form_data']
    active_classes,       \* session_state['active_classes'], as a set
    original_classes,     \* session_state['original_classes'], as a set
    cb_reg, cb_prac, cb_coop, cb_all,         \* class-system checkboxes
    show_preview,         \* session_state['show_preview']
    preview_df,           \* session_state['preview_df']
    writes,               \* saves and deletes carried out in the session
    def_s, sub_s,         \* arguments of the class-list matcher
    fault,                \* what is wrong with a sheet, if anything
    headers,              \* row 1 of sheet Submission_Records
    grid,                 \* cells of the rows written below that header
    saves,                \* save_single_row calls under way, by session
    last                  \* the operation that ran last, with its arguments

storeVars   == <<sub, hist, curr>>
scopeVars   == <<dept_val, sem_val, grade_val, use_history_checkbox,
                 history_year_val, last_dept, last_grade>>
classVars   == <<active_classes, original_classes, cb_reg, cb_prac, cb_coop,
                 cb_all>>
editVars    == <<edit_index, current_uuid, original_key, form_data,
                 active_classes, original_classes, cb_reg, cb_prac, cb_coop,
                 cb_all>>
tableVars   == <<data, loaded, steps>>
previewVars == <<show_preview, preview_df>>
textVars    == <<def_s, sub_s>>
ioVars      == <<fault, headers, grid, saves>>
vars == <<sub, hist, curr, conn, nextUuid, dept_val, sem_val, grade_val,
          use_history_checkbox, history_year_val, last_dept, last_grade,
          data, loaded, steps, edit_index, current_uuid, original_key,
          form_data, active_classes, original_classes, cb_reg, cb_prac,
          cb_coop, cb_all, show_preview, preview_df, writes, def_s, sub_s,
          fault, headers, grid, saves, last>>

-----------------------------------------------------------------------------
(* Bounds of the model.                                                    *)

MaxLen == 3          \* longest class-list text given to the matcher
MaxRows == 3         \* rows in the three sheets together (merge runs)
MaxSubRows == 3      \* rows of Submission (store runs)
MaxWrites == 2       \* saves and deletes in one session
MaxMint == 4         \* identities uuid.uuid4() hands out in one session
MaxEdits == 2        \* pending cell edits of a data editor
MaxCalls == 2        \* calls of load_data in a merge run
MaxSteps == 5        \* events handled in one session
MaxHeader == 3       \* columns of a Submission header (header runs)
MaxGrid == 2         \* rows written in a header run

-----------------------------------------------------------------------------
(* Text.                                                                   *)

None == <<"<None>">>                 \* Python None where a text is expected
CJKCOMMA == "CJKCOMMA"
QuoteChars == {"\"", "'"}
Whitespace == {" "}
Alphabet == {"a", "b", ",", CJKCOMMA, " ", "\"", "'"}

PlainAlphabet == {"a", "b", ","}

RECURSIVE TextsOfLen(_, _)
TextsOfLen(n, chars) ==
    IF n = 0 THEN {<<>>}
    ELSE {Append(t, ch) : t \in TextsOfLen(n - 1, chars), ch \in chars}

Texts == UNION {TextsOfLen(n, Alphabet) : n \in 0..MaxLen}
PlainTexts == UNION {TextsOfLen(n, PlainAlphabet) : n \in 0..MaxLen}

Range(s) == {s[i] : i \in 1..Len(s)}

\* str.strip(): leading and trailing whitespace removed
RECURSIVE lstrip(_)
lstrip(s) ==
    IF s # <<>> /\ Head(s) \in Whitespace THEN lstrip(Tail(s)) ELSE s

RECURSIVE rstrip(_)
rstrip(s) ==
    IF s # <<>> /\ s[Len(s)] \in Whitespace
    THEN rstrip(SubSeq(s, 1, Len(s) - 1)) ELSE s

strip(s) == rstrip(lstrip(s))

\* str.replace(ch, ''), for each ch of chars
remove_chars(s, chars) == SelectSeq(s, LAMBDA ch : ch \notin chars)

\* str.replace(old, new) for one-character old and new
replace_char(s, old, new) ==
    [i \in 1..Len(s) |-> IF s[i] = old THEN new ELSE s[i]]

\* str.split(sep): the pieces between the separators, empty ones kept
RECURSIVE split(_, _)
split(s, sep) ==
    IF \A i \in 1..Len(s) : s[i] # sep THEN <<s>>
    ELSE LET i == CHOOSE k \in 1..Len(s) :
                      s[k] = sep /\ \A j \in 1..(k - 1) : s[j] # sep
         IN <<SubSeq(s, 1, i - 1)>> \o split(SubSeq(s, i + 1, Len(s)), sep)

\* parse_classes without the removal of the quote characters
parse_classes_NoDequote(class_str) ==
    IF class_str = None \/ class_str = <<>> THEN {}
    ELSE LET clean_str == replace_char(class_str, CJKCOMMA, ",")
         IN {strip(c) : c \in Range(split(clean_str, ","))} \ {<<>>}

parse_classes(class_str) ==
    IF class_str = None \/ class_str = <<>> THEN {}
    ELSE LET clean_str ==
                 replace_char(remove_chars(class_str, QuoteChars), CJKCOMMA, ",")
         IN {strip(c) : c \in Range(split(clean_str, ","))} \ {<<>>}

\* check_class_match with the empty-default rule applied to sub_s instead
check_class_match_Swapped(def_s_, sub_s_) ==
    LET d_set == parse_classes(sub_s_)
        s_set == parse_classes(def_s_)
    IN IF d_set = {} THEN TRUE
       ELSE IF s_set = {} THEN FALSE
       ELSE d_set \cap s_set # {}

check_class_match(def_s_, sub_s_) ==
    LET d_set == parse_classes(def_s_)
        s_set == parse_classes(sub_s_)
    IN IF d_set = {} THEN TRUE
       ELSE IF s_set = {} THEN FALSE
       ELSE d_set \cap s_set # {}

-----------------------------------------------------------------------------
(* Cell values.                                                            *)

DeptMech == "MECH"                   \* one entry of the department selectbox
DeptElec == "ELEC"                   \* another entry of the selectbox
Depts == {DeptMech, DeptElec}
Grades == {"1", "2"}
Sems == {"1", "2"}
CurrentSchoolYear == "114"           \* session_state['current_school_year']
NoYear == "<None>"                   \* history_year_val not set

CatSchool == "school-required"       \* a curriculum category
CatCustom == "custom/added"          \* the label of line 331
CatNational == "national-required"   \* the category written by line 1172
\* Python's string order on the category labels and on the course names:
\* the position in these lists.
CatOrder == <<"", CatSchool, CatCustom, CatNational>>
NameOrder == <<"", "Art", "Math", "Music">>
YearOrder == <<"112", "113", "114">>
GradeOrder == <<"1", "2", "3">>
SemOrder == <<"1", "2">>

Pos(list, x) == CHOOSE i \in 1..Len(list) : list[i] = x

IdA == <<"A">>
IdB == <<"B">>
IdAPad == <<" ", "A">>               \* the identity A with a leading blank
Blank == <<>>
ClsA == <<"a">>
ClsB == <<"b">>

\* the n-th identity handed out by uuid.uuid4(): distinct from every other
Mint(n) == <<"m" \o ToString(n)>>

Min(S) == CHOOSE x \in S : \A y \in S : x <= y
Max(S) == CHOOSE x \in S : \A y \in S : x >= y

\* One row of the merged table.  book1 stands for the book-slot and note
\* columns, which every operation copies together.
Rec(flag, uuid, dept, grade, sem, name, cat, cls, book1) ==
    [flag |-> flag, uuid |-> uuid, dept |-> dept, grade |-> grade,
     sem |-> sem, name |-> name, cat |-> cat, cls |-> cls, book1 |-> book1]

\* df.sort_values(by=['cat', 'name'], ascending=[False, True]): a stable
\* sort, rows with equal keys keep their order.
\* the element of a one-element set
Only(S) == CHOOSE v \in S : TRUE

main_before(a, b) ==
    \/ Pos(CatOrder, a.cat) > Pos(CatOrder, b.cat)
    \/ a.cat = b.cat /\ Pos(NameOrder, a.name) < Pos(NameOrder, b.name)

sort_main(s) ==
    LET rank(t, i) == 1 + Cardinality({j \in 1..Len(t) :
                           \/ main_before(t[j], t[i])
                           \/ ~main_before(t[i], t[j]) /\ j < i})
        sorted(t) == [k \in 1..Len(t) |->
                         t[CHOOSE i \in 1..Len(t) : rank(t, i) = k]]
    IN Only({sorted(t) : t \in {s}})

\* df.sort_values(by=['grade', 'sem', 'name'], ascending=True): stable
preview_before(a, b) ==
    \/ Pos(GradeOrder, a.grade) < Pos(GradeOrder, b.grade)
    \/ a.grade = b.grade /\ Pos(SemOrder, a.sem) < Pos(SemOrder, b.sem)
    \/ a.grade = b.grade /\ a.sem = b.sem
         /\ Pos(NameOrder, a.name) < Pos(NameOrder, b.name)

sort_preview(s) ==
    LET rank(t, i) == 1 + Cardinality({j \in 1..Len(t) :
                           \/ preview_before(t[j], t[i])
                           \/ ~preview_before(t[i], t[j]) /\ j < i})
        sorted(t) == [k \in 1..Len(t) |->
                         t[CHOOSE i \in 1..Len(t) : rank(t, i) = k]]
    IN Only({sorted(t) : t \in {s}})

-----------------------------------------------------------------------------
(* The three sheets.  A Submission row has the columns the application     *)
(* writes (no category column); a History row also has a period and a      *)
(* category; a Curriculum row has a name, a category and a default         *)
(* class list.                                                             *)

SubRow(uuid, dept, grade, sem, name, cls, book1) ==
    [uuid |-> uuid, dept |-> dept, grade |-> grade, sem |-> sem,
     name |-> name, cls |-> cls, book1 |-> book1]

HistRow(uuid, dept, grade, sem, year, name, cat, cls, book1) ==
    [uuid |-> uuid, dept |-> dept, grade |-> grade, sem |-> sem,
     year |-> year, name |-> name, cat |-> cat, cls |-> cls, book1 |-> book1]

CurrRow(dept, grade, sem, name, cat, cls) ==
    [dept |-> dept, grade |-> grade, sem |-> sem, name |-> name,
     cat |-> cat, cls |-> cls]

\* The sheets as the readers find them.  fault is one of: nothing wrong;
\* every read of a sheet raises, with a rate-limit error or another error;
\* the header of a sheet lacks a column.
NoFault == [kind |-> "none", sheet |-> "", what |-> ""]
Faults ==
    {NoFault}
    \cup {[kind |-> "io", sheet |-> s, what |-> c] :
             s \in {"sub", "curr", "hist"}, c \in {"rate_limit", "other"}}
    \cup {[kind |-> "column", sheet |-> "sub", what |-> "dept"],
          [kind |-> "column", sheet |-> "curr", what |-> "dept"],
          [kind |-> "column", sheet |-> "hist", what |-> "dept"],
          [kind |-> "column", sheet |-> "hist", what |-> "year"]}

\* ws.get_all_values() raises
io_fails(sheet) == fault.kind = "io" /\ fault.sheet = sheet

\* the header row of the sheet has no column col
lacks(sheet, col) ==
    fault.kind = "column" /\ fault.sheet = sheet /\ fault.what = col

\* get_df(ws_sub) followed by lines 210-213: the identity column stripped
df_sub == [i \in 1..Len(sub) |-> [sub[i] EXCEPT !.uuid = strip(@)]]

\* lines 239-241: the identity column of History stripped
df_hist == [i \in 1..Len(hist) |-> [hist[i] EXCEPT !.uuid = strip(@)]]

\* category_map.get((name, grade, sem), dflt), the map built by lines
\* 222-224 from the department's Curriculum rows: a later row with the
\* same key overwrites an earlier one
category_map_get(dept, name, grade, sem, dflt) ==
    LET hits == {i \in 1..Len(curr) :
                    /\ curr[i].dept = dept /\ curr[i].name = name
                    /\ curr[i].grade = grade /\ curr[i].sem = sem}
    IN IF hits = {} THEN dflt ELSE curr[Max(hits)].cat

\* s_row.to_dict() of a Submission row, with the selection flag cleared
sub_to_rec(s_row, cat) ==
    Rec(FALSE, s_row.uuid, s_row.dept, s_row.grade, s_row.sem, s_row.name,
        cat, s_row.cls, s_row.book1)

\* hist_step with the book of a History row left out
hist_step_BlankBooks(acc, h_row, dept, semester, grade) ==
    LET blank == h_row.uuid = Blank
        h_uuid == IF blank THEN Mint(acc.n + 1) ELSE h_row.uuid
        sub_match == {i \in 1..Len(df_sub) : df_sub[i].uuid = h_uuid}
        row_data ==
            IF sub_match # {}
            THEN sub_to_rec(df_sub[Min(sub_match)], "")
            ELSE Rec(FALSE, h_uuid, h_row.dept, h_row.grade, h_row.sem,
                     h_row.name, h_row.cat, h_row.cls, "")
    IN [rows |-> Append(acc.rows, row_data),
        seen |-> acc.seen \cup {h_uuid},
        n |-> IF blank THEN acc.n + 1 ELSE acc.n]

\* Mode A, one pass of the loop of lines 256-281.  acc holds display_rows,
\* displayed_uuids and the number of identities minted so far.
hist_step(acc, h_row, dept, semester, grade) ==
    LET blank == h_row.uuid = Blank
        h_uuid == IF blank THEN Mint(acc.n + 1) ELSE h_row.uuid
        sub_match == {i \in 1..Len(df_sub) : df_sub[i].uuid = h_uuid}
        mapped == category_map_get(dept, IF sub_match # {}
                                         THEN df_sub[Min(sub_match)].name
                                         ELSE h_row.name, grade, semester, "")
        row_data ==
            IF sub_match # {}
            THEN sub_to_rec(df_sub[Min(sub_match)], mapped)
            ELSE Rec(FALSE, h_uuid, h_row.dept, h_row.grade, h_row.sem,
                     h_row.name, IF h_row.cat = "" THEN mapped ELSE h_row.cat,
                     h_row.cls, h_row.book1)
    IN [rows |-> Append(acc.rows, row_data),
        seen |-> acc.seen \cup {h_uuid},
        n |-> IF blank THEN acc.n + 1 ELSE acc.n]

RECURSIVE hist_loop(_, _, _, _, _)
hist_loop(acc, rows, dept, semester, grade) ==
    IF rows = <<>> THEN acc
    ELSE hist_loop(hist_step(acc, Head(rows), dept, semester, grade),
                   Tail(rows), dept, semester, grade)

\* Mode B, the inner loop of lines 301-310 over the Submission rows with
\* the Curriculum entry's course name; found is found_match
RECURSIVE curr_sub_loop(_, _, _)
curr_sub_loop(acc, s_rows, c_row) ==
    IF s_rows = <<>> THEN acc
    ELSE LET s_row == Head(s_rows)
             shown(hit) == /\ hit /\ s_row.uuid # Blank
                           /\ s_row.uuid \notin acc.seen
             acc1(hit, show) ==
                 [rows |-> IF show
                           THEN Append(acc.rows,
                                       sub_to_rec(s_row, c_row.cat))
                           ELSE acc.rows,
                  seen |-> IF show THEN acc.seen \cup {s_row.uuid}
                           ELSE acc.seen,
                  n |-> acc.n,
                  found |-> acc.found \/ hit]
         IN Only({curr_sub_loop(acc1(hit, shown(hit)), Tail(s_rows), c_row) :
                     hit \in {check_class_match(c_row.cls, s_row.cls)}})

\* Mode B, one pass of the loop of lines 289-321
curr_step(acc, c_row, dept, semester, grade) ==
    LET sub_matches == SelectSeq(df_sub, LAMBDA r :
                          /\ r.dept = dept /\ r.sem = semester
                          /\ r.grade = grade /\ r.name = c_row.name)
        placeholder(after) ==
            IF after.found
            THEN [rows |-> after.rows, seen |-> after.seen, n |-> after.n]
            ELSE [rows |-> Append(after.rows,
                              Rec(FALSE, Mint(after.n + 1), dept, grade,
                                  semester, c_row.name, c_row.cat, c_row.cls,
                                  "")),
                  seen |-> after.seen,
                  n |-> after.n + 1]
    IN Only({placeholder(after) :
                after \in {curr_sub_loop([rows |-> acc.rows,
                                          seen |-> acc.seen, n |-> acc.n,
                                          found |-> FALSE],
                                         sub_matches, c_row)}})

RECURSIVE curr_loop(_, _, _, _, _)
curr_loop(acc, rows, dept, semester, grade) ==
    IF rows = <<>> THEN acc
    ELSE curr_loop(curr_step(acc, Head(rows), dept, semester, grade),
                   Tail(rows), dept, semester, grade)

\* lines 323-333: the in-scope Submission rows not displayed so far
RECURSIVE orphan_loop(_, _)
orphan_loop(acc, s_rows) ==
    IF s_rows = <<>> THEN acc
    ELSE LET s_row == Head(s_rows)
             show == s_row.uuid # Blank /\ s_row.uuid \notin acc.seen
         IN orphan_loop(
                [rows |-> IF show
                          THEN Append(acc.rows, sub_to_rec(s_row, CatCustom))
                          ELSE acc.rows,
                 seen |-> IF show THEN acc.seen \cup {s_row.uuid} ELSE acc.seen,
                 n |-> acc.n],
                Tail(s_rows))

\* ws.get_all_values() as get_df (line 182) and the other readers call it:
\* one call, whose exception goes to the caller
get_all_values(sheet) ==
    [ok |-> ~io_fails(sheet), attempts |-> 1,
     error |-> IF io_fails(sheet) THEN fault.what ELSE ""]

\* load_data leaves through its except clause (lines 344-346) or through
\* line 245: a read raises, df[col] raises KeyError for a missing
\* department column of a sheet with rows (lines 211, 219, 241-245)
load_data_raises(history_year) ==
    \/ ~get_all_values("sub").ok
    \/ ~get_all_values("curr").ok
    \/ sub # <<>> /\ lacks("sub", "dept")
    \/ curr # <<>> /\ lacks("curr", "dept")
    \/ /\ history_year # NoYear
       /\ \/ ~get_all_values("hist").ok
          \/ hist # <<>> /\ lacks("hist", "dept")

\* load_data with displayed_uuids starting as displayed0.  The result is
\* the returned table and the number of identities minted up to its end.
load_data_from(dept, semester, grade, history_year, displayed0) ==
    IF ~conn
    THEN [rows |-> <<>>, n |-> nextUuid, err |-> FALSE, message |-> "",
          unsorted |-> <<>>]
    ELSE IF load_data_raises(history_year)
    THEN [rows |-> <<>>, n |-> nextUuid, err |-> TRUE,
          message |-> "read error", unsorted |-> <<>>]
    ELSE
    LET acc0 == [rows |-> <<>>, seen |-> displayed0, n |-> nextUuid]
        in_scope(r) == r.dept = dept /\ r.sem = semester /\ r.grade = grade
        target_hist == SelectSeq(df_hist, LAMBDA r :
                           /\ in_scope(r)
                           /\ lacks("hist", "year") \/ r.year = history_year)
        target_curr == SelectSeq(curr, in_scope)
        acc1 == IF history_year # NoYear
                THEN hist_loop(acc0, target_hist, dept, semester, grade)
                ELSE curr_loop(acc0, target_curr, dept, semester, grade)
    IN Only({[rows |-> sort_main(acc2.rows), n |-> acc2.n, err |-> FALSE,
              message |-> "", unsorted |-> acc2.rows] :
                acc2 \in {orphan_loop(acc1, SelectSeq(df_sub, in_scope))}})

\* load_data with displayed_uuids carried over from the table in memory
load_data_KeepsDisplayed(dept, semester, grade, history_year) ==
    load_data_from(dept, semester, grade, history_year,
                   {data[i].uuid : i \in 1..Len(data)})

load_data(dept, semester, grade, history_year) ==
    load_data_from(dept, semester, grade, history_year, {})

\* get_history_years(current_year)[0] when the list is not empty: the
\* latest period of History other than the current school year
history_years(current_year) ==
    IF ~conn \/ ~get_all_values("hist").ok \/ lacks("hist", "year") THEN {}
    ELSE {hist[i].year : i \in 1..Len(hist)} \ {current_year}

latest_history_year(current_year) ==
    LET years == history_years(current_year)
    IN CHOOSE y \in years :
           \A z \in years : Pos(YearOrder, z) <= Pos(YearOrder, y)

\* lines 389-395 and 829-837: the period a merge with history uses
resolve_hist_year(use_hist, year_val) ==
    IF ~use_hist THEN NoYear
    ELSE IF year_val # NoYear THEN year_val
    ELSE IF history_years(CurrentSchoolYear) # {}
         THEN latest_history_year(CurrentSchoolYear)
    ELSE NoYear

effective_hist_year == resolve_hist_year(use_history_checkbox, history_year_val)

\* load_preview_data with a blank record for every Curriculum entry of the
\* department added
preview_of_WithPlaceholders(sub_rows, dept, use_hist, year_val) ==
    LET dept_sub == SelectSeq(sub_rows, LAMBDA r : r.dept = dept)
        dept_curr == SelectSeq(curr, LAMBDA r : r.dept = dept)
    IN sort_preview(
           [i \in 1..Len(dept_sub) |-> sub_to_rec(dept_sub[i], "")]
           \o [i \in 1..Len(dept_curr) |->
                  Rec(FALSE, Blank, dept, dept_curr[i].grade,
                      dept_curr[i].sem, dept_curr[i].name, dept_curr[i].cat,
                      dept_curr[i].cls, "")])

\* load_preview_data on the Submission rows sub_rows, with the history
\* widgets at use_hist and year_val: the department's Submission rows and,
\* with history,
\* the History rows of the department and period whose identity is not
\* among them (line 420 reads the identities of the filtered frame);
\* df_final as it is before line 435 sorts it
preview_rows(sub_rows, dept, use_hist, year_val) ==
    IF ~conn \/ ~get_all_values("sub").ok THEN <<>>
    ELSE
    LET dept_sub == SelectSeq(sub_rows, LAMBDA r :
                        lacks("sub", "dept") \/ r.dept = dept)
        hist_year == resolve_hist_year(use_hist, year_val)
        hist_read == /\ get_all_values("hist").ok
                     /\ ~lacks("hist", "dept") /\ ~lacks("hist", "year")
        existing_uuids == {strip(dept_sub[i].uuid) : i \in 1..Len(dept_sub)}
        target_hist == SelectSeq(df_hist, LAMBDA r :
                           /\ r.dept = dept /\ r.year = hist_year
                           /\ r.uuid \notin existing_uuids)
        sub_part == [i \in 1..Len(dept_sub) |->
                        sub_to_rec(dept_sub[i], "")]
        hist_part == [i \in 1..Len(target_hist) |->
                        LET h == target_hist[i]
                        IN Rec(FALSE, h.uuid, h.dept, h.grade, h.sem, h.name,
                               h.cat, h.cls, h.book1)]
        df_final == IF use_hist /\ hist_year # NoYear /\ hist_read
                    THEN sub_part \o hist_part
                    ELSE sub_part
    IN df_final

\* load_preview_data on the Submission rows sub_rows: df_final sorted
preview_of(sub_rows, dept, use_hist, year_val) ==
    Only({sort_preview(df_final) :
             df_final \in {preview_rows(sub_rows, dept, use_hist, year_val)}})

load_preview_data(dept) ==
    preview_of(sub, dept, use_history_checkbox, history_year_val)

-----------------------------------------------------------------------------
(* Merge runs: the sheets hold any rows of these sets, MaxRows in all, and *)
(* load_data and load_preview_data are called for department MECH,         *)
(* grade 1, semester 1.                                                    *)

MergeSubRows ==
    {SubRow(u, DeptMech, "1", "1", nc[1], nc[2], "s-book") :
        u \in {IdA, IdB, Blank},
        nc \in {<<"Math", ClsA>>, <<"Math", ClsB>>, <<"Art", ClsA>>}}
    \cup {SubRow(IdAPad, DeptMech, "1", "1", "Math", ClsA, "s-book"),
          SubRow(IdA, DeptElec, "1", "1", "Math", ClsA, "s-book"),
          SubRow(IdA, DeptMech, "2", "1", "Math", ClsA, "s-book")}

MergeHistRows ==
    {HistRow(IdA, DeptMech, "1", "1", "113", "Math", "", <<"a", ",", "b">>, "h-book"),
     HistRow(IdB, DeptMech, "1", "1", "113", "Math", "", ClsA, "h-book"),
     HistRow(IdB, DeptMech, "1", "1", "113", "Art", CatSchool, ClsA, "h-book"),
     HistRow(IdB, DeptMech, "1", "1", "113", "Math", CatNational, ClsA,
             "h-book"),
     HistRow(Blank, DeptMech, "1", "1", "113", "Math", "", ClsA, "h-book"),
     HistRow(IdA, DeptMech, "1", "1", "112", "Math", "", ClsA, "h-book"),
     HistRow(IdA, DeptMech, "2", "1", "113", "Math", "", ClsA, "h-book")}

MergeCurrRows ==
    {CurrRow(DeptMech, "1", "1", "Math", CatNational, Blank),
     CurrRow(DeptMech, "1", "1", "Math", CatNational, ClsA),
     CurrRow(DeptMech, "1", "1", "Math", CatSchool, ClsB),
     CurrRow(DeptMech, "1", "1", "Art", CatSchool, ClsA),
     CurrRow(DeptElec, "1", "1", "Math", CatNational, ClsA)}

SeqsOfLen(S, n) == [1..n -> S]

NoKey == [none |-> TRUE]             \* original_key is None
EmptyForm == [course |-> "", book1 |-> ""]

\* the session of a run that only calls the readers
\* nothing is wrong with the sheets
SheetsSound == fault = NoFault

\* the header save_single_row and sync_history_to_db give an empty sheet
\* (lines 461 and 549), by the columns the model keeps
SUBMISSION_HEADERS ==
    <<"uuid", "time", "year", "dept", "sem", "grade", "name", "book1",
      "code1", "code2", "cls", "note1">>

\* the browser sessions that may save at the same time
Sessions == {1, 2}

\* no call of save_single_row is under way
NoSaves == [s \in Sessions |-> [pc |-> "idle"]]

\* a sheet with the header the program writes, nothing written yet and
\* no save under way
HeaderSound == headers = SUBMISSION_HEADERS /\ grid = <<>> /\ saves = NoSaves

SessionIdle ==
    /\ last_dept = "<None>" /\ last_grade = "<None>"
    /\ loaded = FALSE /\ steps = 0
    /\ edit_index = 0 /\ current_uuid = None
    /\ original_key = NoKey /\ form_data = EmptyForm
    /\ active_classes = {} /\ original_classes = {}
    /\ cb_reg = FALSE /\ cb_prac = FALSE /\ cb_coop = FALSE /\ cb_all = FALSE
    /\ show_preview = FALSE
    /\ writes = 0
    /\ def_s = Blank /\ sub_s = Blank

InitMerge ==
    /\ \E a \in 0..MaxRows : \E b \in 0..(MaxRows - a) :
       \E c \in 0..(MaxRows - a - b) :
          /\ sub \in SeqsOfLen(MergeSubRows, a)
          /\ hist \in SeqsOfLen(MergeHistRows, b)
          /\ curr \in SeqsOfLen(MergeCurrRows, c)
    /\ conn = TRUE
    /\ nextUuid = 0
    /\ dept_val = DeptMech /\ sem_val = "1" /\ grade_val = "1"
    /\ use_history_checkbox \in BOOLEAN
    /\ history_year_val = IF use_history_checkbox THEN "113" ELSE NoYear
    /\ data = <<>> /\ preview_df = <<>>
    /\ SessionIdle
    /\ last = [op |-> "init", calls |-> 0, prev |-> <<>>, unsorted |-> <<>>]
    /\ SheetsSound
    /\ HeaderSound

\* df = load_data(dept, sem, grade, hist_year), as line 849 calls it
LoadDataCall ==
    /\ last.calls < MaxCalls
    /\ LET res == load_data(dept_val, sem_val, grade_val, effective_hist_year)
       IN /\ data' = res.rows
          /\ nextUuid' = res.n
          /\ last' = [op |-> "load_data", calls |-> last.calls + 1,
                      prev |-> data, err |-> res.err,
                      message |-> res.message, unsorted |-> res.unsorted]
    /\ UNCHANGED <<storeVars, conn, scopeVars, loaded, steps, editVars,
                   previewVars, writes, textVars,
                   ioVars>>

\* df_prev = load_preview_data(dept), as line 1083 calls it
LoadPreviewCall ==
    /\ last.op # "load_preview_data"
    /\ preview_df' = load_preview_data(dept_val)
    /\ last' = [last EXCEPT !.op = "load_preview_data",
                            !.unsorted = preview_rows(sub, dept_val,
                                             use_history_checkbox,
                                             history_year_val)]
    /\ UNCHANGED <<storeVars, conn, nextUuid, scopeVars, tableVars, editVars,
                   show_preview, writes, textVars,
                   ioVars>>

NextMerge == LoadDataCall \/ LoadPreviewCall

SpecMerge == InitMerge /\ [][NextMerge]_vars

-----------------------------------------------------------------------------
(* Properties of the merge.                                                *)

Uuids(rows) == {rows[i].uuid : i \in 1..Len(rows)}
Names(rows) == {rows[i].name : i \in 1..Len(rows)}
IsMinted(u) == \E n \in 1..nextUuid : u = Mint(n)
Content(r) == <<r.name, r.cls, r.book1>>

\* the History rows of the selected period a merge for the department
\* (and, for load_data, the grade and semester) reads
HistInScope(whole_dept) ==
    SelectSeq(df_hist, LAMBDA r :
        /\ r.dept = dept_val /\ r.year = effective_hist_year
        /\ (whole_dept \/ (r.grade = grade_val /\ r.sem = sem_val)))

\* every identity of both Submission and hist_rows is returned in result,
\* and only with the content of a Submission row of that identity
SubmissionWinsIn(result, hist_rows) ==
    \A u \in (Uuids(df_sub) \cap Uuids(hist_rows)) \ {Blank} :
        /\ \E i \in 1..Len(result) : strip(result[i].uuid) = u
        /\ \A i \in 1..Len(result) :
              strip(result[i].uuid) = u =>
                  \E k \in 1..Len(df_sub) :
                      /\ df_sub[k].uuid = u
                      /\ Content(df_sub[k]) = Content(result[i])

\* C1: an identity present in Submission and in the selected History
\* period is returned by a merge with history (load_data and the preview)
\* with the Submission row's course name, classes and books, never with
\* the History row's.
C1_SubmissionWins ==
    /\ (last.op = "load_data" /\ effective_hist_year # NoYear)
          => SubmissionWinsIn(data, HistInScope(FALSE))
    /\ (last.op = "load_preview_data" /\ effective_hist_year # NoYear)
          => SubmissionWinsIn(preview_df, HistInScope(TRUE))

\* C2: no two records returned by load_data carry the same identity.
C2_NoDuplicateIdentities ==
    last.op = "load_data" =>
        \A i, j \in 1..Len(data) : i # j => data[i].uuid # data[j].uuid

\* C3: two in-scope History rows of the selected period with one identity
\* that Submission does not have both appear in the result of load_data,
\* one under the shared identity and the other under a minted identity
\* that no other record carries.
C3_DuplicateHistoryReidentified ==
    (last.op = "load_data" /\ effective_hist_year # NoYear) =>
        LET hs == HistInScope(FALSE)
        IN \A p, q \in 1..Len(hs) :
              (/\ p < q
               /\ hs[p].uuid = hs[q].uuid
               /\ hs[p].uuid # Blank
               /\ hs[p].uuid \notin Uuids(df_sub)
               /\ \A k \in 1..Len(hs) :
                     hs[k].uuid = hs[p].uuid => k \in {p, q})
              => \E x, y \in 1..Len(data) :
                    /\ x # y
                    /\ {Content(data[x]), Content(data[y])}
                           = {Content(hs[p]), Content(hs[q])}
                    /\ data[x].uuid = hs[p].uuid
                    /\ data[y].uuid # hs[p].uuid
                    /\ IsMinted(data[y].uuid)
                    /\ \A z \in 1..Len(data) :
                          z # y => data[z].uuid # data[y].uuid

\* C4: two consecutive calls of load_data that pad from the curriculum,
\* with the same arguments and no write in between, return the same
\* course names and the same identities apart from the minted ones.
C4_PaddingIdempotent ==
    (last.op = "load_data" /\ last.calls >= 2 /\ effective_hist_year = NoYear)
        => /\ Names(data) = Names(last.prev)
           /\ {u \in Uuids(data) : ~IsMinted(u)}
                  = {u \in Uuids(last.prev) : ~IsMinted(u)}

\* a second padded merge that returned a Submission record and a
\* placeholder whose identity differs from the first merge's placeholder
C4_Witness ==
    /\ last.op = "load_data" /\ last.calls = 2
    /\ effective_hist_year = NoYear
    /\ \E i, j \in 1..Len(data) :
          /\ IsMinted(data[i].uuid) /\ data[i].uuid \notin Uuids(last.prev)
          /\ ~IsMinted(data[j].uuid)
    /\ \E i \in 1..Len(last.prev) : IsMinted(last.prev[i].uuid)

\* record r carries the cells of sheet row x
SameRow(r, x) ==
    /\ r.uuid = x.uuid /\ r.dept = x.dept /\ r.grade = x.grade
    /\ r.sem = x.sem /\ Content(r) = Content(x)

\* C15: every record load_preview_data returns is a Submission row of the
\* department or, with history, a History row of the department and the
\* selected period; none comes from the Curriculum.
C15_PreviewNeverSynthesizes ==
    last.op = "load_preview_data" =>
        \A i \in 1..Len(preview_df) :
            \/ \E k \in 1..Len(sub) :
                  sub[k].dept = dept_val /\ SameRow(preview_df[i], sub[k])
            \/ /\ use_history_checkbox
               /\ \E k \in 1..Len(df_hist) :
                     /\ df_hist[k].dept = dept_val
                     /\ df_hist[k].year = effective_hist_year
                     /\ SameRow(preview_df[i], df_hist[k])

\* a preview of a Submission row and a History row, while the Curriculum
\* lists a course neither of them has
C15_Witness ==
    /\ last.op = "load_preview_data"
    /\ use_history_checkbox
    /\ Len(preview_df) = 2
    /\ \E i \in 1..2 : preview_df[i].uuid \in Uuids(sub)
    /\ \E i \in 1..2 : preview_df[i].uuid \notin Uuids(sub)
    /\ \E k \in 1..Len(curr) :
          curr[k].dept = dept_val /\ curr[k].name \notin Names(preview_df)

\* the History rows in scope whose identity is not blank and not in
\* Submission
HistOnly ==
    SelectSeq(HistInScope(FALSE), LAMBDA h :
        h.uuid # Blank /\ h.uuid \notin Uuids(df_sub))

\* C19: a merge with history holds, for every History row in scope whose
\* identity is not blank and not in Submission, a record with that
\* identity and the History row's course name, classes and book, its
\* selection flag false.
C19_HistoryFallbackContent ==
    (last.op = "load_data" /\ effective_hist_year # NoYear) =>
        \A k \in 1..Len(HistOnly) :
            \E i \in 1..Len(data) :
                /\ data[i].uuid = HistOnly[k].uuid
                /\ Content(data[i]) = Content(HistOnly[k])
                /\ ~data[i].flag

\* a merge with history over a History-only row and a Submission row
C19_Witness ==
    /\ last.op = "load_data" /\ effective_hist_year # NoYear
    /\ HistOnly # <<>>
    /\ \E i \in 1..Len(data) : data[i].uuid \in Uuids(df_sub) \ {Blank}

\* the Curriculum entries in scope whose course name no Submission row in
\* scope and, with history, no History row in scope has
CurrUnmatched ==
    LET in_scope(r) == /\ r.dept = dept_val /\ r.grade = grade_val
                       /\ r.sem = sem_val
        taken == Names(SelectSeq(df_sub, in_scope))
                 \cup IF effective_hist_year # NoYear
                      THEN Names(HistInScope(FALSE)) ELSE {}
    IN SelectSeq(curr, LAMBDA c : in_scope(c) /\ c.name \notin taken)

\* C20: a merge holds, for every Curriculum entry in scope whose course
\* name no Submission or History record in scope has, a record with that
\* name, the entry's classes and category, no book, the selection flag
\* false and an identity that is in neither Submission nor History; with
\* history enabled as well as without.
C20_PlaceholderSynthesis ==
    last.op = "load_data" =>
        \A k \in 1..Len(CurrUnmatched) :
            \E i \in 1..Len(data) :
                /\ data[i].name = CurrUnmatched[k].name
                /\ data[i].cls = CurrUnmatched[k].cls
                /\ data[i].cat = CurrUnmatched[k].cat
                /\ data[i].book1 = "" /\ ~data[i].flag
                /\ data[i].uuid \notin Uuids(df_sub) \cup Uuids(df_hist)

\* the Submission rows of the query's department, grade and semester
SubInScope ==
    SelectSeq(df_sub, LAMBDA r :
        r.dept = dept_val /\ r.grade = grade_val /\ r.sem = sem_val)

\* a record synthesized from a Curriculum entry: minted identity, no book
IsPlaceholder(r) == IsMinted(r.uuid) /\ r.book1 = ""

\* C21: a merge holds no Curriculum placeholder whose course name is the
\* course name of a Submission row in scope with an identity (or, with
\* history, of a History row in scope), whether or not the class lists
\* overlap.
C21_NoPlaceholderForRepresented ==
    last.op = "load_data" =>
        \A i \in 1..Len(data) :
            IsPlaceholder(data[i]) =>
                data[i].name \notin
                    Names(SelectSeq(SubInScope, LAMBDA r : r.uuid # Blank))
                    \cup IF effective_hist_year # NoYear
                         THEN Names(HistInScope(FALSE)) ELSE {}

\* the Curriculum entries of the department with the course name, grade
\* and semester of record r, by their place in the sheet
EntriesFor(r) ==
    {k \in 1..Len(curr) :
        /\ curr[k].dept = dept_val /\ curr[k].name = r.name
        /\ curr[k].grade = r.grade /\ curr[k].sem = r.sem}

\* those of them whose class set intersects the classes of r
EntriesMatching(r) ==
    {k \in EntriesFor(r) :
        parse_classes(curr[k].cls) \cap parse_classes(r.cls) # {}}

\* C22: when several Curriculum entries have the course name, grade and
\* semester of a record of the merge but different class lists, and the
\* class set of some of them intersects the record's classes, the record
\* has the category of such an entry, whether it comes from Submission
\* or from History.
C22_CategoryPrefersClassMatch ==
    last.op = "load_data" =>
        \A i \in 1..Len(data) :
            (/\ \E j, k \in EntriesFor(data[i]) : curr[j].cls # curr[k].cls
             /\ EntriesMatching(data[i]) # {})
            => data[i].cat \in {curr[k].cat : k \in EntriesMatching(data[i])}

\* the categories the sheets store for record r: none for a Submission
\* row, which has no category column; the category cell of the History
\* row a History-derived record comes from
StoredCategories(r) ==
    (IF r.uuid \in Uuids(df_sub) THEN {""} ELSE {})
    \cup {df_hist[k].cat : k \in {j \in 1..Len(df_hist) :
             /\ Content(df_hist[j]) = Content(r)
             /\ \/ df_hist[j].uuid = r.uuid
                \/ df_hist[j].uuid = Blank /\ IsMinted(r.uuid)}}

\* C23: a record of the merge that comes from Submission or History and
\* whose classes intersect none of the Curriculum entries with its course
\* name, grade and semester has the category of the first of these
\* entries in the sheet; a record for which there is no such entry keeps
\* the category stored with it.
C23_CategoryFallback ==
    last.op = "load_data" =>
        \A i \in 1..Len(data) :
            ~IsPlaceholder(data[i]) =>
                /\ (/\ EntriesFor(data[i]) # {}
                    /\ EntriesMatching(data[i]) = {})
                   => data[i].cat = curr[Min(EntriesFor(data[i]))].cat
                /\ EntriesFor(data[i]) = {}
                   => data[i].cat \in StoredCategories(data[i])

\* record a comes before record b by grade ascending, then semester
\* ascending, then category descending, then course name ascending
FourKeyBefore(a, b) ==
    \/ Pos(GradeOrder, a.grade) < Pos(GradeOrder, b.grade)
    \/ /\ a.grade = b.grade
       /\ \/ Pos(SemOrder, a.sem) < Pos(SemOrder, b.sem)
          \/ /\ a.sem = b.sem
             /\ \/ Pos(CatOrder, a.cat) > Pos(CatOrder, b.cat)
                \/ /\ a.cat = b.cat
                   /\ Pos(NameOrder, a.name) < Pos(NameOrder, b.name)

\* t is in that order, and its records equal on the four keys are in the
\* order they have in u
FourKeySorted(t, u) ==
    /\ \A i, j \in 1..Len(t) : i < j => ~FourKeyBefore(t[j], t[i])
    /\ \A i \in 1..Len(t) :
          LET same(r) == /\ r.grade = t[i].grade /\ r.sem = t[i].sem
                         /\ r.cat = t[i].cat /\ r.name = t[i].name
          IN SelectSeq(t, same) = SelectSeq(u, same)

\* C24: the list load_data returns, and the list the preview returns, is
\* ordered by grade ascending, semester ascending, category descending and
\* course name ascending, records equal on the four keys being in the
\* order they had before the sort.
C24_ResultOrdering ==
    /\ last.op = "load_data" => FourKeySorted(data, last.unsorted)
    /\ last.op = "load_preview_data"
       => FourKeySorted(preview_df, last.unsorted)

\* C25: a merge, with or without history, holds for every Submission row
\* in scope with an identity a record with that identity and the row's
\* classes and book.
C25_SubmissionRepresented ==
    (last.op = "load_data" /\ ~last.err) =>
        \A k \in 1..Len(SubInScope) :
            SubInScope[k].uuid # Blank =>
                \E i \in 1..Len(data) :
                    /\ data[i].uuid = SubInScope[k].uuid
                    /\ data[i].cls = SubInScope[k].cls
                    /\ data[i].book1 = SubInScope[k].book1

\* C36: every record returned by load_data(dept, semester, grade,
\* history_year) has the department, grade and semester of the query,
\* also a record taken from Submission because its identity is that of a
\* History row in scope.
C36_ResultsInScope ==
    last.op = "load_data" =>
        \A i \in 1..Len(data) :
            /\ data[i].dept = dept_val
            /\ data[i].grade = grade_val
            /\ data[i].sem = sem_val

-----------------------------------------------------------------------------
(* Matcher runs: parse_classes and check_class_match applied to None and   *)
(* to the texts of at most MaxLen characters; the second text has names    *)
(* and ASCII commas only.                                                  *)

InitClasses ==
    /\ def_s \in Texts \cup {None}
    /\ sub_s \in PlainTexts \cup {None}
    /\ sub = <<>> /\ hist = <<>> /\ curr = <<>>
    /\ conn = TRUE /\ nextUuid = 0
    /\ dept_val = DeptMech /\ sem_val = "1" /\ grade_val = "1"
    /\ use_history_checkbox = FALSE /\ history_year_val = NoYear
    /\ last_dept = "<None>" /\ last_grade = "<None>"
    /\ data = <<>> /\ loaded = FALSE /\ steps = 0
    /\ edit_index = 0 /\ current_uuid = None
    /\ original_key = NoKey /\ form_data = EmptyForm
    /\ active_classes = {} /\ original_classes = {}
    /\ cb_reg = FALSE /\ cb_prac = FALSE /\ cb_coop = FALSE /\ cb_all = FALSE
    /\ show_preview = FALSE /\ preview_df = <<>>
    /\ writes = 0
    /\ last = [op |-> "init"]
    /\ SheetsSound
    /\ HeaderSound

ParseClassesCall ==
    /\ last.op = "init"
    /\ last' = [op |-> "parse_classes", result |-> parse_classes(def_s)]
    /\ UNCHANGED <<storeVars, conn, nextUuid, scopeVars, tableVars, editVars,
                   previewVars, writes, textVars,
                   ioVars>>

CheckClassMatchCall ==
    /\ last.op = "init"
    /\ last' = [op |-> "check_class_match",
                result |-> check_class_match(def_s, sub_s)]
    /\ UNCHANGED <<storeVars, conn, nextUuid, scopeVars, tableVars, editVars,
                   previewVars, writes, textVars,
                   ioVars>>

NextClasses == ParseClassesCall \/ CheckClassMatchCall

SpecClasses == InitClasses /\ [][NextClasses]_vars

\* The class names of a text, read off the text position by position: the
\* text without its quote characters is cut at every comma of either kind,
\* and each piece that is not all whitespace gives the name between its
\* first and its last non-whitespace character.
IsComma(ch) == ch \in {",", CJKCOMMA}

ClassNamesOf(text) ==
    LET c == SelectSeq(text, LAMBDA ch : ch \notin QuoteChars)
        n == Len(c)
        blank_run(lo, hi) == \A k \in lo..hi : c[k] \in Whitespace
    IN {SubSeq(c, i, j) : <<i, j>> \in {ij \in (1..n) \X (1..n) :
            /\ ij[1] <= ij[2]
            /\ \A k \in ij[1]..ij[2] : ~IsComma(c[k])
            /\ c[ij[1]] \notin Whitespace /\ c[ij[2]] \notin Whitespace
            /\ \E lo \in 1..ij[1] :
                  /\ lo = 1 \/ IsComma(c[lo - 1])
                  /\ blank_run(lo, ij[1] - 1)
            /\ \E hi \in ij[2]..n :
                  /\ hi = n \/ IsComma(c[hi + 1])
                  /\ blank_run(ij[2] + 1, hi)}}

\* C5: check_class_match(d, c) is true when parse(d) is empty, false when
\* parse(d) is not empty and parse(c) is, and otherwise true exactly when
\* the two sets share a class name.
C5_ClassOverlap ==
    last.op = "check_class_match" =>
        LET d == ClassNamesOf(IF def_s = None THEN <<>> ELSE def_s)
            c == ClassNamesOf(IF sub_s = None THEN <<>> ELSE sub_s)
        IN /\ d = {} => last.result = TRUE
           /\ (d # {} /\ c = {}) => last.result = FALSE
           /\ (d # {} /\ c # {}) => (last.result = (d \cap c # {}))

\* a pair on which the match holds one way round and fails the other way
C5_Witness ==
    /\ last.op = "check_class_match"
    /\ last.result = TRUE
    /\ sub_s # None /\ parse_classes(sub_s) # {}
    /\ ~check_class_match(sub_s, def_s)

\* C6: parse_classes gives the empty set for None and for the empty text,
\* and otherwise the set of non-empty trimmed names between the commas of
\* either kind, quote characters removed; the order and the repetition of
\* the names in the text do not matter.
C6_ParseClasses ==
    last.op = "parse_classes" =>
        /\ def_s \in {None, <<>>} => last.result = {}
        /\ def_s # None => last.result = ClassNamesOf(def_s)
        /\ (def_s # None /\ sub_s # None) =>
              /\ parse_classes(def_s \o <<",">> \o sub_s)
                     = parse_classes(sub_s \o <<CJKCOMMA>> \o def_s)
              /\ parse_classes(def_s \o <<",">> \o sub_s)
                     = last.result \cup parse_classes(sub_s)
              /\ parse_classes(def_s \o <<",">> \o def_s) = last.result

\* a text with two names around a full-width comma, parsed
C6_Witness ==
    /\ last.op = "parse_classes"
    /\ def_s # None /\ CJKCOMMA \in Range(def_s)
    /\ Cardinality(last.result) = 2

-----------------------------------------------------------------------------
(* The writers of Submission.  The sheet has the header save_single_row    *)
(* writes (lines 457, 461), with its uuid column.                          *)

\* lines 494-500 and 521-525: the first row whose identity cell is exactly
\* target_uuid, 0 when there is none or target_uuid is empty
find_row(all_values, target_uuid) ==
    IF target_uuid \in {None, Blank} THEN 0
    ELSE LET hits == {i \in 1..Len(all_values) :
                         all_values[i].uuid = target_uuid}
         IN IF hits = {} THEN 0 ELSE Min(hits)

\* lines 477-492: the cells written for row_data
row_to_write(row_data) ==
    SubRow(row_data.uuid, row_data.dept, row_data.grade, row_data.sem,
           row_data.name, row_data.cls, row_data.book1)

\* save_single_row without the search for the identity's row
save_single_row_AlwaysAppends(row_data) ==
    IF ~conn THEN [ok |-> FALSE, sub |-> sub]
    ELSE [ok |-> TRUE, sub |-> Append(sub, row_to_write(row_data))]

\* save_single_row: its return value and the rows of Submission after it
save_single_row(row_data) ==
    IF ~conn THEN [ok |-> FALSE, sub |-> sub]
    ELSE LET target_row_index == find_row(sub, row_data.uuid)
         IN [ok |-> TRUE,
             sub |-> IF target_row_index > 0
                     THEN [sub EXCEPT ![target_row_index] =
                                          row_to_write(row_data)]
                     ELSE Append(sub, row_to_write(row_data))]

\* s without its i-th element
RemoveAt(s, i) == SubSeq(s, 1, i - 1) \o SubSeq(s, i + 1, Len(s))

\* delete_row_from_db removing every row that carries the identity
delete_row_from_db_AllMatches(target_uuid) ==
    IF target_uuid \in {None, Blank} \/ ~conn
    THEN [ok |-> FALSE, sub |-> sub]
    ELSE [ok |-> find_row(sub, target_uuid) > 0,
          sub |-> SelectSeq(sub, LAMBDA r : r.uuid # target_uuid)]

\* delete_row_from_db: its return value and the rows of Submission after it
delete_row_from_db(target_uuid) ==
    IF target_uuid \in {None, Blank} \/ ~conn
    THEN [ok |-> FALSE, sub |-> sub]
    ELSE LET target_row_index == find_row(sub, target_uuid)
         IN IF target_row_index > 0
            THEN [ok |-> TRUE, sub |-> RemoveAt(sub, target_row_index)]
            ELSE [ok |-> FALSE, sub |-> sub]

-----------------------------------------------------------------------------
(* Store runs: the writers applied to a Submission sheet of at most        *)
(* MaxSubRows rows, some with a repeated, padded or empty identity.        *)

StoreSubRows ==
    {SubRow(u, DeptMech, "1", "1", "Math", ClsA, "s-book") :
        u \in {IdA, IdAPad, IdB, Blank}}

\* rows as line 1171 builds them, of a record with an identity
StoreSaveRows ==
    {Rec(FALSE, u, DeptMech, "1", "1", "Art", CatNational, ClsB, "new-book") :
        u \in {IdA, IdB}}

InitStore ==
    /\ \E n \in 0..MaxSubRows : sub \in SeqsOfLen(StoreSubRows, n)
    /\ hist = <<HistRow(IdA, DeptMech, "1", "1", "113", "Math", "", ClsA,
                        "h-book")>>
    /\ curr = <<CurrRow(DeptMech, "1", "1", "Math", CatNational, ClsA)>>
    /\ conn \in BOOLEAN
    /\ nextUuid = 0
    /\ dept_val = DeptMech /\ sem_val = "1" /\ grade_val = "1"
    /\ use_history_checkbox = FALSE /\ history_year_val = NoYear
    /\ data = <<>> /\ preview_df = <<>>
    /\ SessionIdle
    /\ last = [op |-> "init"]
    /\ SheetsSound
    /\ HeaderSound

SaveRowCall(row_data) ==
    /\ Len(sub) <= MaxSubRows
    /\ LET res == save_single_row(row_data)
       IN /\ sub' = res.sub
          /\ last' = [op |-> "save_single_row", row |-> row_data,
                      before |-> sub, ok |-> res.ok]
    /\ UNCHANGED <<hist, curr, conn, nextUuid, scopeVars, tableVars, editVars,
                   previewVars, writes, textVars,
                   ioVars>>

DeleteRowCall(target_uuid) ==
    /\ LET res == delete_row_from_db(target_uuid)
       IN /\ sub' = res.sub
          /\ last' = [op |-> "delete_row_from_db", uuid |-> target_uuid,
                      before |-> sub, ok |-> res.ok,
                      hist |-> hist, curr |-> curr]
    /\ UNCHANGED <<hist, curr, conn, nextUuid, scopeVars, tableVars, editVars,
                   previewVars, writes, textVars,
                   ioVars>>

\* the next load_data for the scope after a save or a delete, with or
\* without history
LoadAfterWrite(history_year) ==
    /\ last.op \in {"save_single_row", "delete_row_from_db"}
    /\ \E res \in {load_data(dept_val, sem_val, grade_val, history_year)} :
          /\ res.n <= MaxMint
          /\ data' = res.rows
          /\ nextUuid' = res.n
          /\ last' = [op |-> "load_data", after |-> last,
                      history_year |-> history_year]
    /\ UNCHANGED <<storeVars, conn, scopeVars, loaded, steps, editVars,
                   previewVars, writes, textVars,
                   ioVars>>

NextStore ==
    \/ \E row_data \in StoreSaveRows : SaveRowCall(row_data)
    \/ \E target_uuid \in {IdA, IdB} : DeleteRowCall(target_uuid)
    \/ \E history_year \in {NoYear, "113"} : LoadAfterWrite(history_year)

SpecStore == InitStore /\ [][NextStore]_vars

C12_DeleteFrame ==
    last.op = "delete_row_from_db" =>
        /\ hist = last.hist /\ curr = last.curr
        /\ \/ sub = last.before
           \/ \E k \in 1..Len(last.before) :
                 /\ last.before[k].uuid = last.uuid
                 /\ sub = RemoveAt(last.before, k)

\* a delete that removed one of two rows with the identity and left a row
\* with another identity alone
C12_Witness ==
    /\ last.op = "delete_row_from_db" /\ last.ok
    /\ Len(last.before) = 3 /\ Len(sub) = 2
    /\ \E k \in 1..2 : sub[k].uuid = last.uuid
    /\ \E k \in 1..2 : sub[k].uuid \notin {last.uuid, Blank}


\* record r has the identity and the content of a Submission row
SubDerived(r) ==
    \E k \in 1..Len(df_sub) :
        df_sub[k].uuid = r.uuid /\ Content(df_sub[k]) = Content(r)

\* C26: the load_data that follows a successful save of identity i returns
\* a record with identity i and the saved course name, classes and book;
\* the load_data that follows a successful delete of identity i returns no
\* record with identity i that comes from Submission.
C26_ReadsFresh ==
    last.op = "load_data" =>
        /\ (last.after.op = "save_single_row" /\ last.after.ok)
           => \E i \in 1..Len(data) :
                 /\ data[i].uuid = last.after.row.uuid
                 /\ Content(data[i]) = Content(last.after.row)
        /\ (last.after.op = "delete_row_from_db" /\ last.after.ok)
           => \A i \in 1..Len(data) :
                 data[i].uuid = last.after.uuid => ~SubDerived(data[i])
-----------------------------------------------------------------------------
(* The editing session.  A handler is computed on the session fields it    *)
(* reads and writes, held in a record, and the action assigns the result.  *)
(* class_multiselect is given the value of active_classes wherever either  *)
(* is assigned, so one variable stands for both; class lists are kept as   *)
(* the sets of their class names.                                          *)

\* the class systems, in the order of the checkboxes cb_reg, cb_prac, cb_coop
SysReg == "reg"
SysPrac == "prac"
SysCoop == "coop"

\* ALL_SUFFIXES (lines 16-20): one token per class suffix
ALL_SUFFIXES ==
    [reg |-> {"a", "b", "e", "f", "g", "h", "i"},
     coop |-> {"c", "m"},
     prac |-> {"d", "x", "y"}]

\* DEPT_SPECIFIC_CONFIG (lines 22-28), the two departments of the model
DEPT_SPECIFIC_CONFIG ==
    [d \in Depts |->
        IF d = DeptMech
        THEN [reg |-> {"a", "b"}, coop |-> {"c", "m"}, prac |-> {"d"}]
        ELSE [reg |-> {"e", "f"}, coop |-> {}, prac |-> {"x"}]]

\* the prefix dict of line 66: one token per grade character
GradePrefix(grade) ==
    CASE grade = "1" -> <<"I">>
      [] grade = "2" -> <<"II">>
      [] grade = "3" -> <<"III">>
      [] OTHER -> <<>>

\* get_target_classes_for_dept, and get_classes inside
\* update_class_list_from_checkboxes, which is the same function
get_target_classes_for_dept(dept, grade, sys_name) ==
    LET suffixes == IF dept \in DOMAIN DEPT_SPECIFIC_CONFIG
                    THEN DEPT_SPECIFIC_CONFIG[dept][sys_name]
                    ELSE ALL_SUFFIXES[sys_name]
    IN IF grade = "3" /\ sys_name = SysCoop THEN {}
       ELSE {GradePrefix(grade) \o <<s>> : s \in suffixes}

\* lines 933 and 999: the class names of a class-list cell
cls_list(cell) ==
    {strip(c) : c \in Range(split(replace_char(cell, CJKCOMMA, ","), ","))}
        \ {<<>>}

\* update_class_list_from_checkboxes with the selectors at dept and grade
update_class_list_from_checkboxes(S, dept, grade) ==
    LET get_classes(sys_name) == get_target_classes_for_dept(dept, grade,
                                                             sys_name)
        after(cur_set, checked, sys_name) ==
            IF checked THEN cur_set \cup get_classes(sys_name)
            ELSE cur_set \ get_classes(sys_name)
        final == after(after(after(S.active_classes, S.cb_reg, SysReg),
                             S.cb_prac, SysPrac),
                       S.cb_coop, SysCoop)
    IN [S EXCEPT !.active_classes = final,
                 !.cb_all = S.cb_reg /\ S.cb_prac /\ S.cb_coop]

\* get_all_possible_classes (lines 70-77), the options of the multiselect
get_all_possible_classes(grade) ==
    IF GradePrefix(grade) = <<>> THEN {}
    ELSE UNION {IF grade = "3" /\ sys_name = SysCoop THEN {}
                ELSE {GradePrefix(grade) \o <<s>> : s \in ALL_SUFFIXES[sys_name]} :
                sys_name \in {SysReg, SysCoop, SysPrac}}

\* on_multiselect_change that also writes the picked classes, as the set of
\* their names, into the class-list cell of the row being edited
on_multiselect_change_Live(S, class_multiselect) ==
    IF S.edit_index # 0
    THEN [S EXCEPT !.active_classes = class_multiselect,
                   !.data[S.edit_index].cls =
                       IF class_multiselect = {} THEN <<>>
                       ELSE CHOOSE c \in class_multiselect : TRUE]
    ELSE [S EXCEPT !.active_classes = class_multiselect]

\* on_multiselect_change (lines 882-883) with the widget at class_multiselect
on_multiselect_change(S, class_multiselect) ==
    [S EXCEPT !.active_classes = class_multiselect]

\* toggle_all_checkboxes after the checkbox cb_all changed to v
toggle_all_checkboxes(S, v, dept, grade) ==
    update_class_list_from_checkboxes(
        [S EXCEPT !.cb_all = v, !.cb_reg = v, !.cb_prac = v, !.cb_coop = v],
        dept, grade)

\* lines 933-942 and 999-1008: the class list of the row captured and the
\* checkboxes computed back from it
capture_classes(S, idx, dept, grade) ==
    LET cls_set == cls_list(S.data[idx].cls)
        hit(sys_name) ==
            get_target_classes_for_dept(dept, grade, sys_name) \cap cls_set
                # {}
    IN [S EXCEPT !.original_classes = cls_set,
                 !.active_classes = cls_set,
                 !.cb_reg = hit(SysReg), !.cb_prac = hit(SysPrac),
                 !.cb_coop = hit(SysCoop),
                 !.cb_all = hit(SysReg) /\ hit(SysPrac) /\ hit(SysCoop)]

Session ==
    [last_dept |-> last_dept, last_grade |-> last_grade, data |-> data,
     loaded |-> loaded, edit_index |-> edit_index,
     current_uuid |-> current_uuid, original_key |-> original_key,
     form_data |-> form_data, nextUuid |-> nextUuid,
     active_classes |-> active_classes,
     original_classes |-> original_classes,
     cb_reg |-> cb_reg, cb_prac |-> cb_prac, cb_coop |-> cb_coop,
     cb_all |-> cb_all]

SetSession(S) ==
    /\ last_dept' = S.last_dept /\ last_grade' = S.last_grade
    /\ data' = S.data /\ loaded' = S.loaded
    /\ edit_index' = S.edit_index /\ current_uuid' = S.current_uuid
    /\ original_key' = S.original_key /\ form_data' = S.form_data
    /\ nextUuid' = S.nextUuid
    /\ active_classes' = S.active_classes
    /\ original_classes' = S.original_classes
    /\ cb_reg' = S.cb_reg /\ cb_prac' = S.cb_prac /\ cb_coop' = S.cb_coop
    /\ cb_all' = S.cb_all

\* lines 808-823 without the four checkbox assignments of the else branch
grade_changed_KeepsCheckboxes(S, dept, grade) ==
    LET orig == S.original_key
        S1 == IF orig # NoKey /\ orig.grade = grade
              THEN [S EXCEPT !.active_classes = S.original_classes]
              ELSE [S EXCEPT !.active_classes = {}]
    IN update_class_list_from_checkboxes([S1 EXCEPT !.last_grade = grade],
                                         dept, grade)

\* lines 808-823: the grade selector changed while a row is being edited
grade_changed(S, dept, grade) ==
    LET orig == S.original_key
        S1 == IF orig # NoKey /\ orig.grade = grade
              THEN [S EXCEPT !.active_classes = S.original_classes]
              ELSE [S EXCEPT !.active_classes = {},
                             !.cb_reg = FALSE, !.cb_prac = FALSE,
                             !.cb_coop = FALSE, !.cb_all = FALSE]
    IN update_class_list_from_checkboxes([S1 EXCEPT !.last_grade = grade],
                                         dept, grade)

\* lines 826-858: the class picker set to the department's defaults, the
\* table loaded and the edit buffer emptied
reload(S, dept, sem, grade, use_hist, year_val) ==
    LET is_spec == dept \in DOMAIN DEPT_SPECIFIC_CONFIG
        S1 == update_class_list_from_checkboxes(
                  [S EXCEPT !.last_dept = dept, !.last_grade = grade,
                            !.active_classes = {},
                            !.cb_reg = TRUE, !.cb_prac = ~is_spec,
                            !.cb_coop = ~is_spec, !.cb_all = ~is_spec],
                  dept, grade)
    IN Only({[S1 EXCEPT !.data = df.rows, !.loaded = TRUE,
                        !.edit_index = 0, !.original_key = NoKey,
                        !.current_uuid = None, !.form_data = EmptyForm,
                        !.nextUuid = df.n] :
               df \in {load_data(dept, sem, grade,
                                 resolve_hist_year(use_hist, year_val))}})

\* auto_load_data where a department change during an edit only leaves the
\* edit (line 807) and returns
auto_load_data_KeepsBuffer(S, dept, sem, grade, use_hist, year_val) ==
    IF S.edit_index # 0
    THEN IF S.last_dept # dept
         THEN [S EXCEPT !.edit_index = 0, !.last_dept = dept,
                        !.last_grade = grade]
         ELSE IF S.last_grade # grade THEN grade_changed(S, dept, grade)
         ELSE S
    ELSE reload(S, dept, sem, grade, use_hist, year_val)

\* auto_load_data that goes on to the load when the grade changed during
\* an edit
auto_load_data_ReloadsOnGrade(S, dept, sem, grade, use_hist, year_val) ==
    IF S.edit_index # 0 /\ S.last_dept = dept /\ S.last_grade = grade
    THEN S
    ELSE reload(S, dept, sem, grade, use_hist, year_val)

\* auto_load_data with the selectors at dept, sem, grade and the history
\* widgets at use_hist, year_val
auto_load_data(S, dept, sem, grade, use_hist, year_val) ==
    IF S.edit_index # 0 /\ S.last_dept = dept
    THEN IF S.last_grade # grade THEN grade_changed(S, dept, grade) ELSE S
    ELSE reload(S, dept, sem, grade, use_hist, year_val)

\* lines 921-932 and 985-995: the key, identity and form captured from row
capture_row(S, idx) ==
    LET row == S.data[idx]
    IN [S EXCEPT !.edit_index = idx,
                 !.original_key = [dept |-> row.dept, grade |-> row.grade,
                                   sem |-> row.sem, name |-> row.name,
                                   cls |-> row.cls],
                 !.current_uuid = strip(row.uuid),
                 !.form_data = [course |-> row.name, book1 |-> row.book1]]

\* lines 914-917 without the uncheck of the previous row
select_row_KeepsPrevious(table, current_idx, new_checked_idx) ==
    [table EXCEPT ![new_checked_idx].flag = TRUE]

\* lines 914-917: the previous row unchecked, the new one checked
select_row(table, current_idx, new_checked_idx) ==
    LET cleared == IF current_idx # 0 /\ current_idx # new_checked_idx
                   THEN [table EXCEPT ![current_idx].flag = FALSE]
                   ELSE table
    IN [cleared EXCEPT ![new_checked_idx].flag = TRUE]

\* next((int(i) for i, c in edits.items() if c.get(flag) is True), None):
\* edits lists the edited rows in the order of the dict, 0 stands for None
first_checked(edits) ==
    LET hits == {k \in 1..Len(edits) : edits[k].flag}
    IN IF hits = {} THEN 0 ELSE edits[Min(hits)].row

\* on_editor_change with the main editor's edited_rows at edits
on_editor_change(S, edits) ==
    LET new_checked_idx == first_checked(edits)
        current_idx == S.edit_index
        unchecked_current ==
            /\ current_idx # 0
            /\ \E k \in 1..Len(edits) :
                  edits[k].row = current_idx /\ ~edits[k].flag
    IN IF unchecked_current
       THEN [S EXCEPT !.data[current_idx].flag = FALSE,
                      !.edit_index = 0, !.current_uuid = None,
                      !.original_key = NoKey, !.form_data = EmptyForm,
                      !.active_classes = {}]
       ELSE IF new_checked_idx # 0
       THEN capture_classes(
                capture_row(
                    [S EXCEPT !.data = select_row(S.data, current_idx,
                                                  new_checked_idx)],
                    new_checked_idx),
                new_checked_idx, dept_val, grade_val)
       ELSE S

\* lines 952-956, 1055-1059 without the reset of the row's selection flag
drop_selection_KeepsFlag(S) ==
    IF S.edit_index = 0 THEN S
    ELSE [S EXCEPT !.edit_index = 0, !.current_uuid = None]

\* lines 952-956, 1055-1059: the current selection dropped
drop_selection(S) ==
    IF S.edit_index = 0 THEN S
    ELSE [S EXCEPT !.data = IF S.data # <<>>
                             THEN [S.data EXCEPT ![S.edit_index].flag = FALSE]
                             ELSE S.data,
                   !.edit_index = 0, !.current_uuid = None]

\* lines 970-982: the row of the reloaded table for the preview row, by
\* identity and then by course name; 0 when there is none
preview_target(table, row) ==
    LET target_uuid == strip(row.uuid)
        by_uuid == IF target_uuid = Blank THEN {}
                   ELSE {i \in 1..Len(table) : table[i].uuid = target_uuid}
        by_name == {i \in 1..Len(table) : table[i].name = row.name}
    IN IF by_uuid # {} THEN Min(by_uuid)
       ELSE IF by_name # {} THEN Min(by_name)
       ELSE 0

\* on_preview_change for the checked preview row: the session fields after
\* it; the selectors become the row's grade and semester
on_preview_change(S, row, dept, use_hist, year_val) ==
    LET S1 == [drop_selection(S) EXCEPT !.last_grade = row.grade]
        found(S2, new_idx) ==
            IF new_idx = 0 THEN S2
            ELSE capture_classes(
                     capture_row([S2 EXCEPT !.data[new_idx].flag = TRUE],
                                 new_idx),
                     new_idx, dept, row.grade)
    IN Only({found(S2, preview_target(S2.data, row)) :
                S2 \in {auto_load_data(S1, dept, row.sem, row.grade,
                                       use_hist, year_val)}})

-----------------------------------------------------------------------------
(* Session runs.                                                           *)

IdH == <<"H">>
IdG == <<"G">>
IdE == <<"E">>

\* class-list cells naming one regular class of the mechanical department
Cls1A == GradePrefix("1") \o <<"a">>
Cls2A == GradePrefix("2") \o <<"a">>
\* and one regular class of the electrical department
Cls1E == GradePrefix("1") \o <<"e">>

Init ==
    /\ sub = <<SubRow(IdA, DeptMech, "1", "1", "Math", Cls1A, "s-book"),
               SubRow(IdB, DeptMech, "2", "1", "Art", Cls2A, "s-book"),
               SubRow(IdE, DeptElec, "1", "1", "Art", Cls1E, "s-book")>>
    /\ hist = <<HistRow(IdA, DeptMech, "1", "1", "113", "Math", "", Cls1A,
                        "h-book"),
                HistRow(IdH, DeptMech, "1", "1", "113", "Art", "", Cls1A,
                        "h-book"),
                HistRow(IdG, DeptMech, "1", "1", "112", "Music", "", Cls1A,
                        "old-book")>>
    /\ curr = <<CurrRow(DeptMech, "1", "1", "Math", CatNational, Blank),
                CurrRow(DeptMech, "1", "1", "Music", CatSchool, Cls1A)>>
    /\ conn = TRUE
    /\ nextUuid = 0
    /\ dept_val = DeptMech /\ sem_val = "1" /\ grade_val = "1"
    /\ use_history_checkbox = FALSE /\ history_year_val = NoYear
    /\ data = <<>> /\ preview_df = <<>>
    /\ SessionIdle
    /\ last = [op |-> "init"]
    /\ SheetsSound
    /\ HeaderSound

\* the rerun of main after a handler: lines 1081-1084 reload the preview
\* while it is shown
rerun_preview(show, sub_rows, dept, use_hist, year_val) ==
    IF show THEN preview_of(sub_rows, dept, use_hist, year_val)
    ELSE preview_df

\* the edited_rows of a data editor over n rows
EditsOver(n) ==
    UNION {{e \in SeqsOfLen((1..n) \X BOOLEAN, k) :
               \A a, b \in 1..k : a # b => e[a][1] # e[b][1]} :
           k \in 1..MaxEdits}

AsEdits(e) == [k \in 1..Len(e) |-> [row |-> e[k][1], flag |-> e[k][2]]]

\* one more event of the session
Step == steps < MaxSteps /\ steps' = steps + 1

\* line 1110: the first run of main loads the table
FirstRender ==
    /\ ~loaded
    /\ Step
    /\ \E S \in {auto_load_data(Session, dept_val, sem_val, grade_val,
                                use_history_checkbox, history_year_val)} :
          S.nextUuid <= MaxMint /\ SetSession(S)
    /\ last' = [op |-> "first_render"]
    /\ UNCHANGED <<storeVars, conn, dept_val, sem_val, grade_val,
                   use_history_checkbox, history_year_val, previewVars,
                   writes, textVars,
                   ioVars>>

\* the selectors and history widgets, each with on_change=auto_load_data
ScopeChange(dept, sem, grade, use_hist, year_val, after_year, name) ==
    /\ loaded
    /\ Step
    /\ \E S \in {auto_load_data(Session, dept, sem, grade, use_hist,
                                year_val)} :
          S.nextUuid <= MaxMint /\ SetSession(S)
    /\ dept_val' = dept /\ sem_val' = sem /\ grade_val' = grade
    /\ use_history_checkbox' = use_hist /\ history_year_val' = after_year
    /\ preview_df' = rerun_preview(show_preview, sub, dept, use_hist,
                                   after_year)
    /\ last' = [op |-> name, editing |-> edit_index,
                 cbs |-> <<cb_reg, cb_prac, cb_coop, cb_all>>]
    /\ UNCHANGED <<storeVars, conn, show_preview, writes, textVars,
                   ioVars>>

ChangeDept(dept) ==
    /\ dept # dept_val
    /\ ScopeChange(dept, sem_val, grade_val, use_history_checkbox,
                   history_year_val, history_year_val, "change_dept")

ChangeSem(sem) ==
    /\ sem # sem_val
    /\ ScopeChange(dept_val, sem, grade_val, use_history_checkbox,
                   history_year_val, history_year_val, "change_sem")

ChangeGrade(grade) ==
    /\ grade # grade_val
    /\ ScopeChange(dept_val, sem_val, grade, use_history_checkbox,
                   history_year_val, history_year_val, "change_grade")

\* the history checkbox: the period selectbox exists only while it is
\* checked, and starts at the latest period (lines 1041-1045)
ToggleHistory ==
    LET use_hist == ~use_history_checkbox
    IN ScopeChange(dept_val, sem_val, grade_val, use_hist, history_year_val,
                   resolve_hist_year(use_hist, NoYear), "toggle_history")

ChangeHistoryYear(year) ==
    /\ use_history_checkbox
    /\ year \in history_years(CurrentSchoolYear) \ {history_year_val}
    /\ ScopeChange(dept_val, sem_val, grade_val, TRUE, year, year,
                   "change_history_year")

\* the row of the entry of edits that was checked last, 0 when none is
last_checked(edits) ==
    LET hits == {k \in 1..Len(edits) : edits[k].flag}
    IN IF hits = {} THEN 0 ELSE edits[Max(hits)].row

\* a change of the selection column of the main editor
OnEditorChange(edits) ==
    /\ loaded
    /\ Step
    /\ \E S \in {on_editor_change(Session, edits)} : SetSession(S)
    /\ preview_df' = rerun_preview(show_preview, sub, dept_val,
                                   use_history_checkbox, history_year_val)
    /\ last' = [op |-> "on_editor_change", before |-> edit_index,
                newest |-> last_checked(edits),
                first |-> first_checked(edits),
                unchecked |-> \E k \in 1..Len(edits) :
                                 edits[k].row = edit_index /\ ~edits[k].flag]
    /\ UNCHANGED <<storeVars, conn, dept_val, sem_val, grade_val,
                   use_history_checkbox, history_year_val, show_preview,
                   writes, textVars,
                   ioVars>>

\* a change of the selection column of the preview editor (lines 1086-1090)
OnPreviewChange(edits) ==
    /\ loaded /\ show_preview /\ preview_df # <<>>
    /\ Step
    /\ first_checked(edits) # 0
    /\ \E row \in {preview_df[first_checked(edits)]} :
       \E S \in {on_preview_change(Session, row, dept_val,
                                   use_history_checkbox, history_year_val)} :
          /\ S.nextUuid <= MaxMint
          /\ SetSession(S)
          /\ grade_val' = row.grade /\ sem_val' = row.sem
          /\ show_preview' = (S.edit_index = 0)
          /\ preview_df' = rerun_preview(S.edit_index = 0, sub, dept_val,
                                use_history_checkbox, history_year_val)
    /\ last' = [op |-> "on_preview_change"]
    /\ UNCHANGED <<storeVars, conn, dept_val, use_history_checkbox,
                   history_year_val, writes, textVars,
                   ioVars>>

\* lines 1052-1061: the preview button
TogglePreview ==
    /\ loaded
    /\ Step
    /\ show_preview' = ~show_preview
    /\ SetSession(IF edit_index # 0
                  THEN [drop_selection(Session) EXCEPT !.form_data = EmptyForm]
                  ELSE Session)
    /\ preview_df' = rerun_preview(~show_preview, sub, dept_val,
                                   use_history_checkbox, history_year_val)
    /\ last' = [op |-> "toggle_preview"]
    /\ UNCHANGED <<storeVars, conn, dept_val, sem_val, grade_val,
                   use_history_checkbox, history_year_val, writes, textVars,
                   ioVars>>

\* lines 1141-1143: one of the checkboxes cb_reg, cb_prac, cb_coop, with
\* on_change=update_class_list_from_checkboxes
ToggleSystem(sys_name) ==
    /\ loaded
    /\ Step
    /\ LET S == [Session EXCEPT
                    !.cb_reg = IF sys_name = SysReg THEN ~cb_reg ELSE cb_reg,
                    !.cb_prac = IF sys_name = SysPrac THEN ~cb_prac
                                ELSE cb_prac,
                    !.cb_coop = IF sys_name = SysCoop THEN ~cb_coop
                                ELSE cb_coop]
       IN SetSession(update_class_list_from_checkboxes(S, dept_val,
                                                       grade_val))
    /\ preview_df' = rerun_preview(show_preview, sub, dept_val,
                                   use_history_checkbox, history_year_val)
    /\ last' = [op |-> "toggle_system", sys_name |-> sys_name]
    /\ UNCHANGED <<storeVars, conn, dept_val, sem_val, grade_val,
                   use_history_checkbox, history_year_val, show_preview,
                   writes, textVars, ioVars>>

\* line 1140: the checkbox cb_all, with on_change=toggle_all_checkboxes
ToggleAll ==
    /\ loaded
    /\ Step
    /\ SetSession(toggle_all_checkboxes(Session, ~cb_all, dept_val,
                                        grade_val))
    /\ preview_df' = rerun_preview(show_preview, sub, dept_val,
                                   use_history_checkbox, history_year_val)
    /\ last' = [op |-> "toggle_all"]
    /\ UNCHANGED <<storeVars, conn, dept_val, sem_val, grade_val,
                   use_history_checkbox, history_year_val, show_preview,
                   writes, textVars, ioVars>>

\* the classes the user adds to or removes from the multiselect in the
\* model: a class of the department and a class of another one
PickedSuffixes == {"a", "x"}

\* lines 1145-1146: the multiselect, with on_change=on_multiselect_change;
\* the user adds or removes class c of the options
OnMultiselectChange(c) ==
    /\ loaded
    /\ Step
    /\ c \in get_all_possible_classes(grade_val) \cup active_classes
    /\ LET sel == IF c \in active_classes THEN active_classes \ {c}
                  ELSE active_classes \cup {c}
       IN SetSession(on_multiselect_change(Session, sel))
    /\ preview_df' = rerun_preview(show_preview, sub, dept_val,
                                   use_history_checkbox, history_year_val)
    /\ last' = [op |-> "on_multiselect_change", c |-> c]
    /\ UNCHANGED <<storeVars, conn, dept_val, sem_val, grade_val,
                   use_history_checkbox, history_year_val, show_preview,
                   writes, textVars, ioVars>>

\* lines 1120-1124: the cancel button
Cancel ==
    /\ loaded /\ edit_index # 0
    /\ Step
    /\ edit_index' = 0
    /\ data' = [i \in 1..Len(data) |-> [data[i] EXCEPT !.flag = FALSE]]
    /\ preview_df' = rerun_preview(show_preview, sub, dept_val,
                                   use_history_checkbox, history_year_val)
    /\ last' = [op |-> "cancel"]
    /\ UNCHANGED <<storeVars, conn, nextUuid, scopeVars, loaded,
                   current_uuid, original_key, form_data, classVars,
                   show_preview, writes, textVars, ioVars>>

\* lines 1125-1131: the delete button
DeleteRow ==
    /\ loaded /\ edit_index # 0
    /\ Step
    /\ writes < MaxWrites
    /\ LET res == delete_row_from_db(current_uuid)
       IN /\ sub' = res.sub
          /\ data' = IF res.ok THEN RemoveAt(data, edit_index) ELSE data
          /\ edit_index' = IF res.ok THEN 0 ELSE edit_index
          /\ writes' = IF res.ok THEN writes + 1 ELSE writes
          /\ preview_df' = rerun_preview(show_preview, res.sub, dept_val,
                               use_history_checkbox, history_year_val)
          /\ last' = [op |-> "delete", ok |-> res.ok, row |-> edit_index,
                      absent |-> find_row(sub, current_uuid) = 0,
                      before |-> data, sub_before |-> sub]
    /\ UNCHANGED <<hist, curr, conn, nextUuid, scopeVars, loaded,
                   current_uuid, original_key, form_data, classVars,
                   show_preview, textVars, ioVars>>

\* the text inputs of the sidebar form when the save button is pressed
SaveCourses == {"Art"}
SaveBooks == {"", "new-book"}

\* lines 1167-1191: the save button. api_fails: the store call raises, the
\* run of main stops at the exception.
Save(inp_course, inp_bk1, inp_cls, api_fails) ==
    /\ loaded
    /\ Step
    /\ writes < MaxWrites
    /\ LET is_edit == edit_index # 0
           invalid == inp_cls = Blank \/ inp_bk1 = ""
           uid == IF is_edit THEN current_uuid ELSE Mint(nextUuid + 1)
           row == Rec(FALSE, uid, dept_val, grade_val, sem_val, inp_course,
                      CatNational, inp_cls, inp_bk1)
           res == save_single_row(row)
           raised == conn /\ api_fails
           done == ~invalid /\ ~raised
       IN /\ ~is_edit /\ done => nextUuid + 1 <= MaxMint
          /\ sub' = IF done THEN res.sub ELSE sub
          /\ nextUuid' = IF done /\ ~is_edit THEN nextUuid + 1 ELSE nextUuid
          /\ data' = IF ~done THEN data
                     ELSE IF is_edit THEN [data EXCEPT ![edit_index] = row]
                     ELSE Append(data, row)
          /\ edit_index' = IF done THEN 0 ELSE edit_index
          /\ writes' = IF done THEN writes + 1 ELSE writes
          /\ preview_df' = rerun_preview(show_preview, sub', dept_val,
                               use_history_checkbox, history_year_val)
          /\ last' = [op |-> "save", attempted |-> ~invalid,
                      written |-> done /\ res.ok, reported |-> done,
                      before |-> data, is_edit |-> is_edit]
    /\ UNCHANGED <<hist, curr, conn, scopeVars, loaded, current_uuid,
                   original_key, form_data, classVars, show_preview, textVars,
                   ioVars>>

\* get_connection (lines 80-92) re-evaluated without readable credentials:
\* every later call returns None
ConnectionLost ==
    /\ loaded /\ conn
    /\ Step
    /\ conn' = FALSE
    /\ last' = [op |-> "connection_lost"]
    /\ UNCHANGED <<storeVars, nextUuid, scopeVars, data, loaded, editVars,
                   previewVars, writes, textVars,
                   ioVars>>

Next ==
    \/ FirstRender
    \/ \E dept \in Depts : ChangeDept(dept)
    \/ \E sem \in Sems : ChangeSem(sem)
    \/ \E grade \in Grades : ChangeGrade(grade)
    \/ ToggleHistory
    \/ \E year \in history_years(CurrentSchoolYear) : ChangeHistoryYear(year)
    \/ \E e \in EditsOver(Len(data)) : OnEditorChange(AsEdits(e))
    \/ \E e \in EditsOver(Len(preview_df)) : OnPreviewChange(AsEdits(e))
    \/ TogglePreview
    \/ \E sys_name \in {SysReg, SysPrac, SysCoop} : ToggleSystem(sys_name)
    \/ ToggleAll
    \/ \E g \in Grades, s \in PickedSuffixes :
          OnMultiselectChange(GradePrefix(g) \o <<s>>)
    \/ Cancel
    \/ DeleteRow
    \/ \E c \in SaveCourses, b \in SaveBooks, f \in BOOLEAN :
          Save(c, b, ClsB, f)
    \/ ConnectionLost

Spec == Init /\ [][Next]_vars

-----------------------------------------------------------------------------
(* Properties of the session.                                              *)

Selected == {i \in 1..Len(data) : data[i].flag}

\* C7: after any sequence of session operations at most one row of the
\* in-memory merged table has its selection flag true.
C7_SingleSelection == Cardinality(Selected) <= 1

\* on_editor_change has moved the selection from one row to another
C7_Witness ==
    /\ last.op = "on_editor_change"
    /\ last.before # 0 /\ edit_index # 0 /\ edit_index # last.before
    /\ Selected = {edit_index}

\* C8: when on_editor_change handles pending edits that check a row other
\* than the one already selected, without unchecking the selected one, the
\* session ends editing the row checked most recently and the flag of the
\* row selected before is false.
C8_NewestSelectionWins ==
    (/\ last.op = "on_editor_change"
     /\ last.before # 0 /\ ~last.unchecked
     /\ last.newest # 0 /\ last.newest # last.before)
    => /\ edit_index = last.newest
       /\ data[last.newest].flag
       /\ ~data[last.before].flag

\* C10: a save whose write to Submission did not succeed leaves the
\* in-memory merged table as it was and is not reported as saved.
C10_NoUpdateWithoutWrite ==
    (last.op = "save" /\ last.attempted /\ ~last.written)
    => data = last.before /\ ~last.reported

\* C27: when the department selector changes while a row is being edited,
\* auto_load_data leaves the session idle, no row of the reloaded table is
\* selected, and the form fields, the captured key and the current identity
\* are cleared.
C27_DeptChangeEndsEditing ==
    (last.op = "change_dept" /\ last.editing # 0)
    => /\ edit_index = 0
       /\ Selected = {}
       /\ form_data = EmptyForm
       /\ original_key = NoKey
       /\ current_uuid = None

\* a department change during an edit has reloaded a table that has rows
C27_Witness ==
    /\ last.op = "change_dept" /\ last.editing # 0
    /\ data # <<>>
    /\ \A i \in 1..Len(data) : data[i].dept = dept_val
    /\ edit_index = 0

\* the grade selector has changed while a row was being edited
GradeChangedInEdit ==
    /\ last.op = "change_grade"
    /\ last.editing # 0

\* C28: when the grade selector changes while a row is being edited and the
\* new grade is the grade of the edited record, then after auto_load_data
\* the active class list equals the class list captured when the row was
\* selected, whatever the class-system checkboxes were before the change.
C28_GradeReturnKeepsClasses ==
    (GradeChangedInEdit /\ data[last.editing].grade = grade_val)
    => active_classes = original_classes

\* C29: when the grade selector changes while a row is being edited and the
\* new grade differs from the grade of the edited record, then after
\* auto_load_data the active class list is empty, the four class-system
\* checkboxes are unchecked, and the session still edits the same row.
C29_GradeLeaveResetsClasses ==
    (GradeChangedInEdit /\ data[last.editing].grade # grade_val)
    => /\ active_classes = {}
       /\ ~cb_reg /\ ~cb_prac /\ ~cb_coop /\ ~cb_all
       /\ edit_index = last.editing
       /\ data[edit_index].flag

\* the grade has moved away from a record edited with classes captured and
\* with class-system checkboxes checked
C29_Witness ==
    /\ GradeChangedInEdit
    /\ data[last.editing].grade # grade_val
    /\ original_classes # {}
    /\ last.cbs[1] /\ last.cbs[2]
    /\ active_classes = {} /\ ~cb_reg /\ ~cb_prac
    /\ edit_index = last.editing

\* C30: whenever the session is idle (no row being edited), whether it
\* left the edit by unchecking the row, by Cancel, by a successful Save, by
\* a successful Delete or by a department change, the edit buffer holds no
\* data of a previously edited record: the captured form fields are blank
\* and there is no current identity.
C30_BufferDiscardedOnExit ==
    edit_index = 0 => form_data = EmptyForm /\ current_uuid = None

\* the fields of the rows of a table, without the selection flags
Unflagged(table) ==
    [i \in 1..Len(table) |-> [table[i] EXCEPT !.flag = FALSE]]

\* on_editor_change or on_preview_change has just captured a row
JustEntered ==
    /\ edit_index # 0
    /\ \/ last.op = "on_editor_change" /\ ~last.unchecked /\ last.first # 0
       \/ last.op = "on_preview_change"

\* the edit buffer is the snapshot of the row at edit_index
SnapshotOfRow ==
    LET row == data[edit_index]
    IN /\ form_data = [course |-> row.name, book1 |-> row.book1]
       /\ current_uuid = row.uuid
       /\ original_key = [dept |-> row.dept, grade |-> row.grade,
                          sem |-> row.sem, name |-> row.name,
                          cls |-> row.cls]
       /\ active_classes = cls_list(row.cls)
       /\ original_classes = cls_list(row.cls)

\* a step that changes the class picker or the grade during an edit
PickerStep ==
    /\ edit_index # 0
    /\ last'.op \in {"toggle_system", "toggle_all", "on_multiselect_change",
                     "change_grade"}

\* C31: on entering an edit the buffer equals the selected row's fields and
\* the class list parsed from its cell, and no later change of the class
\* picker (checkbox toggles, multiselect changes) or of the grade during the
\* edit modifies a field of a row of the in-memory table other than the
\* selection flag.
C31_DecoupledSnapshot ==
    /\ [](JustEntered => SnapshotOfRow)
    /\ [][PickerStep => Unflagged(data') = Unflagged(data)]_vars

\* during an edit the class picker holds another list than the one
\* captured, and the row still carries the captured class list
C31_Witness ==
    /\ edit_index # 0
    /\ last.op \in {"toggle_system", "toggle_all", "on_multiselect_change"}
    /\ active_classes # original_classes
    /\ cls_list(data[edit_index].cls) = original_classes
    /\ original_classes # {}

\* C34: in every reachable session state a row of the in-memory table has
\* its selection flag true only if the session is editing and that row is
\* the one at edit_index; and whenever the session is editing, edit_index
\* is a row position of the table and the current identity is the identity
\* of the row at edit_index.
C34_SelectionAgrees ==
    /\ \A i \in 1..Len(data) : data[i].flag => edit_index = i
    /\ edit_index # 0 =>
          /\ edit_index \in 1..Len(data)
          /\ current_uuid = data[edit_index].uuid

\* a row checked in the preview is being edited in a table of several rows
C34_Witness ==
    /\ last.op = "on_preview_change"
    /\ edit_index # 0 /\ Len(data) > 1
    /\ data[edit_index].flag
    /\ current_uuid = data[edit_index].uuid

\* C37: a save while editing a record writes the record's Submission row
\* with the department, grade and semester the record had when it was
\* selected (the captured original key), also when the grade or semester
\* selector changed during the edit.
C37_SaveKeepsScope ==
    (last.op = "save" /\ last.is_edit /\ last.written)
    => LET k == find_row(sub, current_uuid)
       IN /\ k # 0
          /\ sub[k].dept = original_key.dept
          /\ sub[k].grade = original_key.grade
          /\ sub[k].sem = original_key.sem

\* a step that changes the grade, the semester, the history checkbox or the
\* history period during an edit
ScopeStepInEdit ==
    /\ edit_index # 0
    /\ last'.op \in {"change_grade", "change_sem", "toggle_history",
                     "change_history_year"}

\* C39: while a row is being edited, a change of grade, semester, history
\* checkbox or history period (the department staying as it is) does not
\* reload or modify the in-memory table and leaves edit_index, the current
\* identity and the captured form fields as they were.
C39_ScopeChangeKeepsEdit ==
    [][ScopeStepInEdit =>
          /\ data' = data
          /\ edit_index' = edit_index
          /\ current_uuid' = current_uuid
          /\ form_data' = form_data]_vars

\* the history checkbox was checked during an edit, after a grade change
\* away from the edited record's grade
C39_Witness ==
    /\ last.op = "toggle_history" /\ last.editing # 0
    /\ use_history_checkbox
    /\ edit_index = last.editing
    /\ data[edit_index].flag
    /\ data[edit_index].grade # grade_val

\* C11: a delete while editing a record whose identity has no row in
\* Submission leaves Submission as it was, removes the record's row from
\* the in-memory table and returns the session to idle.
C11_DeleteUnsaved ==
    (last.op = "delete" /\ last.absent)
    => /\ sub = last.sub_before
       /\ data = RemoveAt(last.before, last.row)
       /\ edit_index = 0

-----------------------------------------------------------------------------
(* Fault runs: the two readers over a small store, with one thing wrong    *)
(* with one sheet, or nothing.                                             *)

FaultSubs ==
    {<<>>,
     <<SubRow(IdA, DeptMech, "1", "1", "Math", ClsA, "s-book")>>,
     <<SubRow(IdA, DeptMech, "1", "1", "Math", ClsA, "s-book"),
       SubRow(IdB, DeptElec, "1", "1", "Art", ClsA, "s-book")>>}

FaultHists ==
    {<<>>,
     <<HistRow(IdH, DeptMech, "1", "1", "113", "Art", "", ClsA, "h-book"),
       HistRow(IdG, DeptMech, "1", "1", "112", "Music", "", ClsA,
               "old-book")>>}

FaultCurrs ==
    {<<>>, <<CurrRow(DeptMech, "1", "1", "Math", CatNational, ClsA)>>}

InitFault ==
    /\ sub \in FaultSubs /\ hist \in FaultHists /\ curr \in FaultCurrs
    /\ conn = TRUE /\ nextUuid = 0
    /\ dept_val = DeptMech /\ sem_val = "1" /\ grade_val = "1"
    /\ use_history_checkbox \in BOOLEAN
    /\ history_year_val = IF use_history_checkbox THEN "113" ELSE NoYear
    /\ data = <<>> /\ preview_df = <<>>
    /\ SessionIdle
    /\ fault \in Faults
    /\ last = [op |-> "init", calls |-> 0, prev |-> <<>>, err |-> FALSE,
               message |-> "", unsorted |-> <<>>]
    /\ HeaderSound

NextFault == LoadDataCall \/ LoadPreviewCall

SpecFault == InitFault /\ [][NextFault]_vars

\* the sheets load_data and load_preview_data read in the current scope
load_data_reads ==
    {"sub", "curr"} \cup IF use_history_checkbox THEN {"hist"} ELSE {}

load_preview_reads ==
    {"sub"} \cup IF use_history_checkbox THEN {"hist"} ELSE {}

\* C13: when the read of a sheet a merge needs fails, load_data reports a
\* failure and returns no records, and load_preview_data returns no
\* records; neither returns a table built from the sheets that were read.
C13_NoPartialResult ==
    /\ (last.op = "load_data" /\ fault.kind = "io"
          /\ fault.sheet \in load_data_reads)
       => data = <<>> /\ last.err
    /\ (last.op = "load_preview_data" /\ fault.kind = "io"
          /\ fault.sheet \in load_preview_reads)
       => preview_df = <<>>

\* C14: when a sheet a merge consults lacks a required column, load_data
\* reports a failure and returns no records, and load_preview_data returns
\* no records; the sheet is never skipped with the rest returned.
C14_MissingColumnFails ==
    /\ (last.op = "load_data" /\ fault.kind = "column"
          /\ fault.sheet \in load_data_reads)
       => data = <<>> /\ last.err
    /\ (last.op = "load_preview_data" /\ fault.kind = "column"
          /\ fault.sheet \in load_preview_reads)
       => preview_df = <<>>

\* C18: a read that fails with a rate-limit error is attempted more than
\* once and then surfaces as a service-busy failure; a read that fails
\* with another error is attempted once.
C18_BoundedRetry ==
    (last.op = "load_data" /\ fault.kind = "io"
       /\ fault.sheet \in load_data_reads)
    => /\ last.err
       /\ IF fault.what = "rate_limit"
          THEN /\ get_all_values(fault.sheet).attempts > 1
               /\ last.message = "service busy"
          ELSE get_all_values(fault.sheet).attempts = 1

-----------------------------------------------------------------------------
(* Header runs: save_single_row and sync_history_to_db on a Submission     *)
(* sheet whose header row is any row of up to MaxHeader column names.      *)
(* Column names: "name" is the course name, "book1" the first book,        *)
(* "code1"/"code2" the approval codes under their current names, "code"    *)
(* the approval code under its legacy name, "note1" and "note" the note    *)
(* under its current and legacy name, "flag" the selection column of the   *)
(* table on screen, "extra" a column the program does not know.            *)

\* a text field as the cell that holds it
cell(s) == IF s = "" THEN Blank ELSE <<s>>

\* a truth value as a cell
flag_cell(b) == <<IF b THEN "TRUE" ELSE "FALSE">>

\* data_dict with the selection flag of row_data among its keys
data_dict_WithFlag(row_data) ==
    [uuid |-> row_data.uuid, time |-> <<"now">>,
     year |-> cell(CurrentSchoolYear),
     dept |-> cell(row_data.dept), sem |-> cell(row_data.sem),
     grade |-> cell(row_data.grade), name |-> cell(row_data.name),
     book1 |-> cell(row_data.book1), code1 |-> cell(row_data.code1),
     code2 |-> cell(row_data.code2), cls |-> row_data.cls,
     note1 |-> cell(row_data.note1), flag |-> flag_cell(row_data.flag)]

\* lines 477-483: the cells save_single_row has a value for
data_dict(row_data) ==
    [uuid |-> row_data.uuid, time |-> <<"now">>,
     year |-> cell(CurrentSchoolYear),
     dept |-> cell(row_data.dept), sem |-> cell(row_data.sem),
     grade |-> cell(row_data.grade), name |-> cell(row_data.name),
     book1 |-> cell(row_data.book1), code1 |-> cell(row_data.code1),
     code2 |-> cell(row_data.code2), cls |-> row_data.cls,
     note1 |-> cell(row_data.note1)]

\* lines 485-492: one cell for every column of the header
row_to_write_for(hdrs, row_data) ==
    [i \in 1..Len(hdrs) |->
        Only({IF hdrs[i] \in DOMAIN dd THEN dd[hdrs[i]]
              ELSE IF hdrs[i] \in {"code1", "code", "approval"} THEN dd.code1
              ELSE IF hdrs[i] = "code2" THEN dd.code2
              ELSE IF hdrs[i] = "note" THEN dd.note1
              ELSE Blank : dd \in {data_dict(row_data)}})]

\* col_map of line 472: the last column with name h, 0 if there is none
col_map(hdrs, h) ==
    LET cols == {i \in 1..Len(hdrs) : hdrs[i] = h}
    IN IF cols = {} THEN 0 ELSE Max(cols)

\* lines 459-470: the header and the rows save_single_row goes on with
bootstrap(hdrs, rows) ==
    IF hdrs = <<>> \/ col_map(hdrs, "uuid") = 0
    THEN [headers |-> SUBMISSION_HEADERS, rows |-> <<>>]
    ELSE [headers |-> hdrs, rows |-> rows]

\* save_single_row on the sheet (hdrs, rows): the sheet after it and the
\* row written
save_cells(hdrs, rows, row_data) ==
    IF ~conn
    THEN [ok |-> FALSE, headers |-> hdrs, rows |-> rows, written |-> <<>>]
    ELSE LET sheet == bootstrap(hdrs, rows)
             cells == row_to_write_for(sheet.headers, row_data)
             uuid_idx == col_map(sheet.headers, "uuid")
             hits == IF row_data.uuid \in {None, Blank} THEN {}
                     ELSE {i \in 1..Len(sheet.rows) :
                              sheet.rows[i][uuid_idx] = row_data.uuid}
         IN [ok |-> TRUE, headers |-> sheet.headers,
             rows |-> IF hits # {}
                      THEN [sheet.rows EXCEPT ![Min(hits)] = cells]
                      ELSE Append(sheet.rows, cells),
             written |-> <<cells>>]

\* get_val of lines 573-576: the first of the named cells of a History
\* row that is there and not blank
RECURSIVE get_val(_, _)
get_val(row, keys) ==
    IF keys = <<>> THEN Blank
    ELSE IF Head(keys) \in DOMAIN row /\ row[Head(keys)] # ""
         THEN cell(row[Head(keys)])
         ELSE get_val(row, Tail(keys))

\* lines 579-587: the cells sync_history_to_db has a value for
row_dict(row) ==
    [uuid |-> strip(row.uuid), time |-> <<"now">>,
     year |-> cell(CurrentSchoolYear),
     dept |-> cell(row.dept), sem |-> cell(row.sem),
     grade |-> cell(row.grade), name |-> cell(row.name),
     book1 |-> get_val(row, <<"book1", "book">>),
     code1 |-> get_val(row, <<"code1", "code">>),
     code2 |-> get_val(row, <<"code2">>),
     cls |-> row.cls,
     note1 |-> get_val(row, <<"note1", "note">>)]

\* lines 588-594: one cell for every column of the header
new_row_list(sub_headers, row) ==
    [i \in 1..Len(sub_headers) |->
        Only({IF sub_headers[i] \in DOMAIN rd THEN rd[sub_headers[i]]
              ELSE Blank : rd \in {row_dict(row)}})]

\* a header get_all_records may refuse: a column name twice
has_duplicates(hdrs) ==
    \E i, j \in 1..Len(hdrs) : i < j /\ hdrs[i] = hdrs[j]

\* sync_history_to_db(dept, history_year) on the sheet (hdrs, rows).
\* refused says whether get_all_records raises on a header with a column
\* name twice, which depends on the gspread release.
sync_cells(hdrs, rows, dept, history_year, refused) ==
    LET uuid_idx == col_map(hdrs, "uuid")
        raises == \/ has_duplicates(hdrs) /\ refused
                  \/ rows # <<>> /\ uuid_idx = 0
        existing_uuids == {strip(rows[i][uuid_idx]) : i \in 1..Len(rows)}
        sub_headers == IF hdrs = <<>> THEN SUBMISSION_HEADERS ELSE hdrs
        target_rows == SelectSeq(hist, LAMBDA r :
                           r.year = history_year /\ r.dept = dept)
        kept == SelectSeq(target_rows, LAMBDA r :
                    strip(r.uuid) \notin existing_uuids)
        rows_to_append == [k \in 1..Len(kept) |->
                              new_row_list(sub_headers, kept[k])]
    IN IF ~conn \/ raises
       THEN [ok |-> FALSE, headers |-> hdrs, rows |-> rows,
             written |-> <<>>]
       ELSE IF history_year = NoYear
       THEN [ok |-> TRUE, headers |-> hdrs, rows |-> rows, written |-> <<>>]
       ELSE [ok |-> TRUE, headers |-> sub_headers,
             rows |-> rows \o rows_to_append, written |-> rows_to_append]

\* the text of a cell that holds a text field
uncell(c) == IF c = Blank THEN "" ELSE c[1]

\* get_df of lines 181-205 on the sheet (hdrs, rows): a column keeps its
\* name, or the name its legacy name maps to, where that name comes first
get_df_sub(hdrs, rows) ==
    LET col(names) ==
            LET cols == {i \in 1..Len(hdrs) : hdrs[i] \in names}
            IN IF cols = {} THEN 0 ELSE Min(cols)
        at(r, names) == IF col(names) = 0 THEN Blank ELSE r[col(names)]
    IN [k \in 1..Len(rows) |->
           SubRow(at(rows[k], {"uuid"}),
                  uncell(at(rows[k], {"dept"})),
                  uncell(at(rows[k], {"grade"})),
                  uncell(at(rows[k], {"sem"})),
                  uncell(at(rows[k], {"name"})),
                  at(rows[k], {"cls"}),
                  uncell(at(rows[k], {"book1", "book"})))]

HeaderNames == {"uuid", "name", "code", "note", "flag", "extra"}

\* header rows of up to MaxHeader columns
HeaderRows ==
    UNION {SeqsOfLen(HeaderNames, n) : n \in 0..MaxHeader}

\* records of the table on screen handed to save_single_row, selected
\* or not
HeaderSaveRows ==
    {Rec(f, u, DeptMech, "1", "1", "Art", CatNational, ClsB, "new-book")
        @@ [code1 |-> "c-1", code2 |-> "", note1 |-> "n-1"] :
        f \in BOOLEAN, u \in {IdA, IdB}}

\* History rows of a sheet that also has a legacy note column and a
\* selection column
HeaderHistRows ==
    {HistRow(u, DeptMech, "1", "1", "113", "Math", "", ClsA, "h-book")
        @@ [note |-> "old-note", flag |-> "TRUE"] :
        u \in {IdA, IdAPad, Blank}}

InitHeader ==
    /\ sub = <<>>
    /\ \E n \in 1..2 : hist \in SeqsOfLen(HeaderHistRows, n)
    /\ curr = <<>>
    /\ conn = TRUE /\ nextUuid = 0
    /\ dept_val = DeptMech /\ sem_val = "1" /\ grade_val = "1"
    /\ use_history_checkbox = TRUE /\ history_year_val = "113"
    /\ data = <<>> /\ preview_df = <<>>
    /\ SessionIdle
    /\ SheetsSound
    /\ headers \in HeaderRows /\ grid = <<>> /\ saves = NoSaves
    /\ last = [op |-> "init", written |-> <<>>]

SaveCellsCall(row_data) ==
    /\ Len(grid) < MaxGrid
    /\ \E res \in {save_cells(headers, grid, row_data)} :
          /\ headers' = res.headers
          /\ grid' = res.rows
          /\ sub' = get_df_sub(res.headers, res.rows)
          /\ last' = [op |-> "save_single_row", row |-> row_data,
                      written |-> res.written]
    /\ UNCHANGED <<hist, curr, conn, nextUuid, scopeVars, tableVars, editVars,
                   previewVars, writes, textVars, fault, saves>>

SyncHistoryCall ==
    /\ Len(grid) < MaxGrid
    /\ last.op # "sync_history_to_db"
    /\ \E refused \in BOOLEAN :
       \E res \in {sync_cells(headers, grid, dept_val, history_year_val,
                              refused)} :
          /\ headers' = res.headers
          /\ grid' = res.rows
          /\ sub' = get_df_sub(res.headers, res.rows)
          /\ last' = [op |-> "sync_history_to_db", ok |-> res.ok,
                      written |-> res.written]
    /\ UNCHANGED <<hist, curr, conn, nextUuid, scopeVars, tableVars, editVars,
                   previewVars, writes, textVars, fault, saves>>

NextHeader ==
    \/ \E row_data \in HeaderSaveRows : SaveCellsCall(row_data)
    \/ SyncHistoryCall

SpecHeader == InitHeader /\ [][NextHeader]_vars

\* the cells a selection flag would be written as
FlagCells == {flag_cell(b) : b \in BOOLEAN}

\* C16: no cell of a row that save_single_row or sync_history_to_db has
\* written holds the value of a selection flag, and the cell under a
\* selection column of the header is empty, whatever the header row is.
C16_FlagNeverPersisted ==
    \A k \in 1..Len(grid) :
        \A i \in 1..Len(grid[k]) :
            /\ grid[k][i] \notin FlagCells
            /\ headers[i] = "flag" => grid[k][i] = Blank

\* a selected record saved, and History rows synchronised, under a header
\* that has a selection column
C16_Witness ==
    /\ Len(grid) = 2
    /\ \E i \in 1..Len(headers) : headers[i] = "flag"
    /\ last.op = "save_single_row" /\ last.row.flag
    /\ \E i \in 1..Len(headers) : grid[1][i] = <<"Math">>

\* the stripped identity cells of rows under the header hdrs
IdentityCells(hdrs, rows) ==
    [k \in 1..Len(rows) |-> strip(rows[k][col_map(hdrs, "uuid")])]

\* C38: sync_history_to_db appends to Submission only History rows whose
\* identity is not in Submission yet, never appends two rows of the same
\* identity in one call, and a second run directly after it leaves
\* Submission as it is, also when History rows have a blank or a repeated
\* identity.
C38_SyncIdempotent ==
    (/\ last.op = "sync_history_to_db" /\ last.ok
     /\ col_map(headers, "uuid") # 0)
    => LET before == SubSeq(grid, 1, Len(grid) - Len(last.written))
           old == IdentityCells(headers, before)
           new == IdentityCells(headers, last.written)
       IN /\ \A k \in 1..Len(new) : \A j \in 1..Len(old) : new[k] # old[j]
          /\ \A j, k \in 1..Len(new) : j # k => new[j] # new[k]
          /\ \A refused \in BOOLEAN :
                sync_cells(headers, grid, dept_val, history_year_val,
                           refused).rows = grid

-----------------------------------------------------------------------------
(* Race runs: two sessions call save_single_row, each call being a read of *)
(* the whole sheet (line 459) and, later, one write (line 505 or 507); the *)
(* sheet is not locked between the two.                                    *)

\* Submission rows of distinct identities
RaceSubs ==
    {t \in UNION {SeqsOfLen(StoreSubRows, n) : n \in 0..MaxSubRows} :
        \A i, j \in 1..Len(t) : t[i].uuid = t[j].uuid => i = j}

\* the record session s saves
RaceRows(s) ==
    {Rec(FALSE, u, DeptMech, "1", "1", "Art", CatNational, ClsB,
         IF s = 1 THEN "book-1" ELSE "book-2") : u \in {IdA, IdB}}

InitRace ==
    /\ sub \in RaceSubs
    /\ hist = <<>> /\ curr = <<>>
    /\ conn = TRUE /\ nextUuid = 0
    /\ dept_val = DeptMech /\ sem_val = "1" /\ grade_val = "1"
    /\ use_history_checkbox = FALSE /\ history_year_val = NoYear
    /\ data = <<>> /\ preview_df = <<>>
    /\ SessionIdle
    /\ SheetsSound
    /\ HeaderSound
    /\ last = [op |-> "init"]

\* lines 459-500: session s reads all values and looks for the row of the
\* identity in what it has read
SaveRead(s, row_data) ==
    /\ saves[s].pc = "idle"
    /\ saves' = [saves EXCEPT ![s] =
                    [pc |-> "read", row |-> row_data,
                     target_row_index |-> find_row(sub, row_data.uuid)]]
    /\ last' = [op |-> "read", s |-> s]
    /\ UNCHANGED <<storeVars, conn, nextUuid, scopeVars, tableVars, editVars,
                   previewVars, writes, textVars, fault, headers, grid>>

\* lines 502-507: session s updates the row it found, or appends
SaveWrite(s) ==
    /\ saves[s].pc = "read"
    /\ sub' = IF saves[s].target_row_index \in 1..Len(sub)
              THEN [sub EXCEPT ![saves[s].target_row_index] =
                                   row_to_write(saves[s].row)]
              ELSE Append(sub, row_to_write(saves[s].row))
    /\ saves' = [saves EXCEPT ![s].pc = "done"]
    /\ last' = [op |-> "write", s |-> s, before |-> sub]
    /\ UNCHANGED <<hist, curr, conn, nextUuid, scopeVars, tableVars, editVars,
                   previewVars, writes, textVars, fault, headers, grid>>

NextRace ==
    \/ \E s \in Sessions : \E row_data \in RaceRows(s) : SaveRead(s, row_data)
    \/ \E s \in Sessions : SaveWrite(s)

SpecRace == InitRace /\ [][NextRace]_vars

\* C17: when both sessions have saved the same identity, whatever the
\* order of their reads and writes, Submission holds exactly one row of
\* that identity, and it is the row of the session that wrote last.
C17_LastWriterWins ==
    (/\ \A s \in Sessions : saves[s].pc = "done"
     /\ saves[1].row.uuid = saves[2].row.uuid)
    => /\ Cardinality({k \in 1..Len(sub) :
                          sub[k].uuid = saves[1].row.uuid}) = 1
       /\ \E k \in 1..Len(sub) : sub[k] = row_to_write(saves[last.s].row)

-----------------------------------------------------------------------------
(* Interleaved runs: as the race runs, and a session may also call         *)
(* delete_row_from_db, a read of the whole sheet (line 516) and, later,    *)
(* the removal of the row at the position found (line 526).                *)

\* lines 516-525: session s reads all values and looks for the row of
\* target_uuid in what it has read
DeleteRead(s, target_uuid) ==
    /\ saves[s].pc = "idle"
    /\ saves' = [saves EXCEPT ![s] =
                    [pc |-> "delete_read", row |-> [uuid |-> target_uuid],
                     target_row_index |-> find_row(sub, target_uuid)]]
    /\ last' = [op |-> "delete_read", s |-> s]
    /\ UNCHANGED <<storeVars, conn, nextUuid, scopeVars, tableVars, editVars,
                   previewVars, writes, textVars, fault, headers, grid>>

\* lines 525-528: session s removes the row at the position it found; a
\* position below the last row removes nothing
DeleteWrite(s) ==
    /\ saves[s].pc = "delete_read"
    /\ sub' = IF saves[s].target_row_index \in 1..Len(sub)
              THEN RemoveAt(sub, saves[s].target_row_index)
              ELSE sub
    /\ saves' = [saves EXCEPT ![s].pc = "delete_done"]
    /\ last' = [op |-> "delete_write", s |-> s, before |-> sub]
    /\ UNCHANGED <<hist, curr, conn, nextUuid, scopeVars, tableVars, editVars,
                   previewVars, writes, textVars, fault, headers, grid>>

NextInterleave ==
    \/ \E s \in Sessions : \E row_data \in RaceRows(s) : SaveRead(s, row_data)
    \/ \E s \in Sessions : SaveWrite(s)
    \/ \E s \in Sessions : \E target_uuid \in {IdA, IdB} :
          DeleteRead(s, target_uuid)
    \/ \E s \in Sessions : DeleteWrite(s)

SpecInterleave == InitRace /\ [][NextInterleave]_vars

\* C35: when another session has appended or deleted Submission rows
\* between the read and the write of a save or delete for an identity, the
\* write changes or removes only a row of that identity, never a row that
\* carries another identity.
C35_WritesHitTarget ==
    /\ last.op = "write" =>
          \A k \in 1..Len(last.before) :
             (k <= Len(sub) /\ sub[k] # last.before[k])
             => last.before[k].uuid = saves[last.s].row.uuid
    /\ (last.op = "delete_write" /\ Len(sub) < Len(last.before))
          => last.before[saves[last.s].target_row_index].uuid
                = saves[last.s].row.uuid

-----------------------------------------------------------------------------
(* Normalizer runs: the header loop of get_df (lines 191-204), repeated in *)
(* load_preview_data (lines 370-383), on raw header rows. A column name is *)
(* a sequence of tokens, one per character or fixed word: "note", "book",  *)
(* "pri", "no" and "appr" are the words of the remark, textbook, priority, *)
(* number and approval column names of lines 187-190.                      *)

MaxCols == 3         \* columns of a raw header row

Paren(n) == <<"(", n, ")">>

\* mapping (lines 187-190): legacy column names and their canonical names
mapping ==
    << <<<<"book">> \o Paren("1"), <<"book", "(", "pri", "1", ")">>>>,
       <<<<"book">>, <<"book", "(", "pri", "1", ")">>>>,
       <<<<"no">> \o Paren("1"), <<"appr", "no">> \o Paren("1")>>,
       <<<<"no">>, <<"appr", "no">> \o Paren("1")>>,
       <<<<"appr", "no">>, <<"appr", "no">> \o Paren("1")>>,
       <<<<"book">> \o Paren("2"), <<"book", "(", "pri", "2", ")">>>>,
       <<<<"no">> \o Paren("2"), <<"appr", "no">> \o Paren("2")>>,
       <<<<"note">>, <<"note", "1">>>> >>

\* mapping.get(c, c)
mapping_get(c) ==
    LET hits == {k \in 1..Len(mapping) : mapping[k][1] = c}
    IN IF hits = {} THEN c ELSE mapping[Min(hits)][2]

\* final_name.startswith(...) of line 198, for the remark word
starts_with_note(name) == name # <<>> /\ name[1] = "note"

\* the loop of lines 193-204 from column i on, with the counts seen so far
RECURSIVE header_loop(_, _, _)
header_loop(hdrs, i, seen) ==
    IF i > Len(hdrs) THEN <<>>
    ELSE LET c == strip(hdrs[i])
             final_name == mapping_get(c)
         IN IF final_name \in DOMAIN seen
            THEN LET n == seen[final_name] + 1
                     unique_name ==
                         IF starts_with_note(final_name)
                         THEN <<"note", ToString(n)>>
                         ELSE final_name \o Paren(ToString(n))
                 IN <<unique_name>>
                        \o header_loop(hdrs, i + 1,
                                       [seen EXCEPT ![final_name] = n])
            ELSE <<IF final_name = <<"note">> THEN <<"note", "1">>
                   ELSE final_name>>
                     \o header_loop(hdrs, i + 1,
                                    (final_name :> 1) @@ seen)

\* new_headers of get_df and of load_preview_data for the header row hdrs
new_headers(hdrs) == header_loop(hdrs, 1, <<>>)

\* column names a raw header row may hold: identity columns in several
\* spellings, legacy, canonical and already-suffixed names
RawNames ==
    {<<"uuid">>, <<" ", "uuid">>, <<"UUID">>, <<"uuid">> \o Paren("2"),
     <<"note">>, <<"note", "1">>, <<"note", "2">>,
     <<"book">>, <<"book">> \o Paren("1"),
     <<"book", "(", "pri", "1", ")">>,
     <<"book", "(", "pri", "1", ")">> \o Paren("2"),
     <<"name">>}

InitNorm ==
    /\ sub = <<>> /\ hist = <<>> /\ curr = <<>>
    /\ conn = TRUE /\ nextUuid = 0
    /\ dept_val = DeptMech /\ sem_val = "1" /\ grade_val = "1"
    /\ use_history_checkbox = FALSE /\ history_year_val = NoYear
    /\ data = <<>> /\ preview_df = <<>>
    /\ SessionIdle
    /\ SheetsSound
    /\ \E n \in 1..MaxCols : headers \in SeqsOfLen(RawNames, n)
    /\ grid = <<>> /\ saves = NoSaves
    /\ last = [op |-> "init"]

\* get_df (lines 181-205) reads the header row of the sheet
GetDfCall ==
    /\ last.op = "init"
    /\ last' = [op |-> "get_df", columns |-> new_headers(headers)]
    /\ UNCHANGED <<storeVars, conn, nextUuid, scopeVars, tableVars, editVars,
                   previewVars, writes, textVars, ioVars>>

\* load_preview_data (lines 366-385) reads the header row of the sheet
PreviewHeadersCall ==
    /\ last.op = "init"
    /\ last' = [op |-> "load_preview_data",
                columns |-> new_headers(headers)]
    /\ UNCHANGED <<storeVars, conn, nextUuid, scopeVars, tableVars, editVars,
                   previewVars, writes, textVars, ioVars>>

NextNorm ==
    \/ GetDfCall
    \/ PreviewHeadersCall

SpecNorm == InitNorm /\ [][NextNorm]_vars

\* the canonical name of a raw column name
Canonical(col) == mapping_get(strip(col))

\* name ends with a parenthesised number
HasNumericSuffix(base, name) ==
    \/ \E n \in {"2", "3", "4", "5"} : name = base \o Paren(n)
    \/ starts_with_note(base) /\ \E n \in {"2", "3", "4", "5"} :
          name = <<"note", n>>

\* C32: for every raw header row the canonical column names produced by
\* the normalizer contain no name twice; the first occurrence of a name
\* keeps the bare canonical name and later occurrences get a numeric
\* suffix.
C32_CanonicalNamesUnique ==
    last.op \in {"get_df", "load_preview_data"} =>
        LET cols == last.columns
        IN /\ Len(cols) = Len(headers)
           /\ \A i, j \in 1..Len(cols) : i # j => cols[i] # cols[j]
           /\ \A i \in 1..Len(cols) :
                 IF \E j \in 1..(i - 1) :
                       Canonical(headers[j]) = Canonical(headers[i])
                 THEN HasNumericSuffix(Canonical(headers[i]), cols[i])
                 ELSE cols[i] = Canonical(headers[i])

\* str.lower() of a column name, on the letters of the model
lower(name) == [k \in 1..Len(name) |-> IF name[k] = "UUID" THEN "uuid"
                                        ELSE name[k]]

\* the columns of the header row whose name is the identity name when
\* compared without regard to case and surrounding blanks
IdentityColumns(hdrs) ==
    {i \in 1..Len(hdrs) : lower(strip(hdrs[i])) = <<"uuid">>}

\* C33: when more than one column of the raw header row normalizes to the
\* identity name (compared without regard to case and blanks), the
\* normalized table has exactly one identity column, the first of them, and
\* the later ones are dropped from the table instead of being kept under a
\* suffixed name.
C33_SingleIdentityColumn ==
    (/\ last.op \in {"get_df", "load_preview_data"}
     /\ Cardinality(IdentityColumns(headers)) > 1)
    => LET cols == last.columns
           first == Min(IdentityColumns(headers))
       IN /\ Len(cols) = Len(headers)
                            - (Cardinality(IdentityColumns(headers)) - 1)
          /\ {i \in 1..Len(cols) : lower(cols[i]) = <<"uuid">>} = {first}
          /\ \A i \in 1..Len(cols) : cols[i] # <<"uuid">> \o Paren("2")

=============================================================================
